---- MODULE Spec2Model ----
(***************************************************************************)
(* Execution core of the bioinformatics workflow engine.                   *)
(*                                                                         *)
(* Part I   the asyncio engine: bioflow/engine/workflow.py                 *)
(*          (WorkflowEngine.execute) and bioflow/engine/dependency.py      *)
(*          (ExecutionDependencyResolver.get_execution_layers).            *)
(* Part II  the threaded engine: bioinfoflow/executor/engine.py            *)
(*          (ExecutionEngine), scheduler.py (TaskScheduler) and            *)
(*          context.py (ExecutionContext, StepContext).                    *)
(***************************************************************************)
EXTENDS FiniteSets, Integers, Sequences, TLC

\* ------------------------------------------------------------------ bounds
\* Number of step names a workflow is drawn from.
NumSteps == 3
\* Largest number of depends_on / after entries in a workflow.
MaxEdges == 3

StepNames == 1..NumSteps

VARIABLES
    \* ---- Part I: WorkflowEngine (asyncio)
    wf_steps,          \* names of workflow.steps
    depends_on,        \* Step.depends_on, per step of the workflow
    pc,                \* position of the execute() coroutine
    execution_layers,  \* local execution_layers of execute()
    layer_idx,         \* 1-based index of the layer being gathered
    tasks,             \* per step: outcome of its _execute_step task
    result,            \* the ExecutionResult built by execute()
    \* ---- Part II: ExecutionEngine / TaskScheduler / ExecutionContext (threads)
    after,             \* Step.after, per step of the workflow
    resources,         \* Step.resources, per step: [cpu, memory, gpu]
    pending,           \* TaskScheduler.pending (FIFO queue)
    running,           \* TaskScheduler.running
    completed,         \* TaskScheduler.completed
    failed,            \* TaskScheduler.failed
    status,            \* StepContext.status, per step
    allocated_cpus,    \* ExecutionContext.allocated_cpus
    allocated_memory,  \* ExecutionContext.allocated_memory (bytes)
    allocated_gpus,    \* ExecutionContext.allocated_gpus
    futures,           \* keys of ExecutionEngine.futures
    worker,            \* per step: position of its _execute_step call in the pool
    main_pc,           \* position of ExecutionEngine.execute
    success,           \* value returned by ExecutionEngine.execute
    containers,        \* ExecutionEngine.containers (an id is named by its step)
    alive,             \* containers the docker daemon is running, by step
    sd_size,           \* shutdown(): size of self.containers when its for loop began
    sd_done,           \* shutdown(): container ids its for loop has visited
    dependents,        \* TaskScheduler.dependents (a dict: its keys are set one by one)
    build_pc,          \* position in TaskScheduler._build_dependency_graph
    dispatched,        \* per step: how often execute() submitted _execute_step for it
    sched_call,        \* the last call a client made on the TaskScheduler: [op, step, raised, n]
    \* ---- Part III: DependencyResolver / ExecutionDependencyResolver (bioflow)
    step_depends_on,   \* Step.depends_on of the steps handed to add_step
    step_references,   \* per step: the steps named by ${steps.X.outputs.*} tokens
    step_steps,        \* Step.steps: per step, the names of its nested steps
    dr_steps,          \* keys of ExecutionDependencyResolver.steps
    nodes,             \* DependencyResolver.nodes: name -> [dependencies, dependents]
    dependencies,      \* ExecutionDependencyResolver.dependencies
    dep_order,         \* per node: iteration order of its dependencies set
    dr_pc,             \* position in add_step / get_execution_layers / sort
    dr_layers,         \* what get_execution_layers returned (or that it raised)
    visited,           \* validate(): visited
    temp_visited,      \* validate(): temp_visited
    call_stack,        \* validate(): active visit() calls, [node, next]
    cycle,             \* _find_cycle(): cycle (its last entry is `current`)
    sorted_steps,      \* DependencyResolver.sorted_steps
    \* ---- Part IV: bioinfo_flow VariableResolver.resolve_string
    rs_context,        \* self.context and the step's inputs: variable -> value
    rs_step,           \* whether resolve_string was given a step
    rs_value,          \* the argument `value`
    prev_value,        \* local prev_value
    current_value,     \* local current_value
    iterations,        \* passes of the for loop that called VAR_PATTERN.sub
    rs_pc,             \* position in resolve_string
    \* ---- Part IV: replace(match), the callback of resolve_string
    parts,             \* var_path.split('.')
    rp_step,           \* whether resolve_string was given a step
    output_value,      \* IODefinition.value of the output the workflow declares
    replaced,          \* what replace(match) returned or raised
    rp_pc,             \* position in replace(match)
    \* ---- Part IV: bioflow VariableResolver.resolve
    config,            \* self.config: [env REF, input ref value, command, ...]
    step_stack,        \* self.step_stack
    resolved,          \* the resolved step built by resolve_dict
    cfg_pc,            \* position in resolve_dict of the step
    \* ---- Part V: CommandExecutor / ContainerExecutor (bioflow)
    executor,          \* the class whose execute() runs
    ex_step,           \* the step: [type, command, container]
    accepts,           \* what can_execute(step) returned
    docker_calls,      \* the docker commands execute() has run, with their exit codes
    ex_pc,             \* position in execute()
    child,             \* the exited process: [returncode, stdout, stderr]
    step_state,        \* the StepExecutionState execute() builds
    \* ---- Part VI: bioinfo_flow DependencyResolver
    flow_steps,        \* names of workflow.workflow.steps, in their order
    flow_depends_on,   \* Step.depends_on, per step
    flow_references,   \* per step: the X of the ${steps.X.outputs.*} tokens in its
                       \* command, input values and container volumes
    graph,             \* DependencyResolver.graph (a defaultdict: absent -> empty)
    flow_in_degree,    \* get_execution_order(): in_degree (absent -> 0)
    queue,             \* get_execution_order(): queue
    execution_order,   \* get_execution_order(): execution_order (step names)
    flow_cycle,        \* the chain CircularDependencyError is raised with
    flow_pc            \* position in __init__ / get_execution_order

evars == <<wf_steps, depends_on, pc, execution_layers, layer_idx, tasks, result>>

\* Construction of the TaskScheduler, and the calls made on it.
bvars == <<dependents, build_pc, dispatched, sched_call>>

tvars == <<after, resources, pending, running, completed, failed, status,
           allocated_cpus, allocated_memory, allocated_gpus, futures, worker,
           main_pc, success, containers, alive, sd_size, sd_done, bvars>>

\* ExecutionEngine.containers, the docker daemon and the for loop of shutdown().
kvars == <<containers, alive, sd_size, sd_done>>

dvars == <<step_depends_on, step_references, step_steps, dr_steps, nodes, dependencies, dep_order, dr_pc,
           dr_layers, visited, temp_visited, call_stack, cycle, sorted_steps>>

\* replace(match) applied to one reference.
pvars == <<parts, rp_step, output_value, replaced, rp_pc>>

svars == <<rs_context, rs_step, rs_value, prev_value, current_value, iterations, rs_pc, pvars>>

cvars == <<config, step_stack, resolved, cfg_pc>>

xvars == <<executor, ex_step, accepts, docker_calls, ex_pc, child, step_state>>

gvars == <<flow_steps, flow_depends_on, flow_references, graph, flow_in_degree, queue,
           execution_order, flow_cycle, flow_pc>>

\* Everything outside the two engines.
rvars == <<dvars, svars, cvars, xvars, gvars>>

vars == <<evars, tvars, rvars>>

\* ------------------------------------------------------------ helpers
Range(f) == {f[i] : i \in DOMAIN f}

\* All orders in which a list built from the set S can enumerate it.
Orders(S) == {f \in [1..Cardinality(S) -> S] : \A i, j \in DOMAIN f : f[i] = f[j] => i = j}

SetMax(S) == CHOOSE m \in S : \A x \in S : x <= m

\* ====================================================================
\* Part I.a  ExecutionDependencyResolver.get_execution_layers
\* ====================================================================

\* ready = {name in remaining : all(dep in completed for dep in dependencies[name])}
\* (done is the local set `completed` of get_execution_layers)
ReadySteps_IgnoreDependencies(deps, remaining, done) == remaining

ReadySteps_AnyDep(deps, remaining, done) ==
    {name \in remaining : deps[name] = {} \/ \E dep \in deps[name] : dep \in done}

ReadySteps(deps, remaining, done) ==
    {name \in remaining : \A dep \in deps[name] : dep \in done}

RECURSIVE LayerLoop(_, _, _, _)
\* The while-loop of get_execution_layers; a layer is the set the list is built from.
LayerLoop(deps, remaining, done, layers) ==
    IF remaining = {} THEN [ok |-> TRUE, layers |-> layers]
    ELSE LET ready == ReadySteps(deps, remaining, done)
         IN IF ready = {}
            THEN [ok |-> FALSE, layers |-> layers]   \* raise ValueError("Cycle detected ...")
            ELSE LayerLoop(deps, remaining \ ready, done \cup ready, Append(layers, ready))

\* get_execution_layers over the steps added by add_step.
GetExecutionLayers(names, deps) == LayerLoop(deps, names, {}, <<>>)

\* ====================================================================
\* Part I.b  WorkflowEngine.execute
\* ====================================================================

\* `except Exception` of execute(): which exception classes the handler catches.
Caught_ExecutionErrorOnly(exc) == exc = "ExecutionError"

Caught(exc) == exc \in {"ValueError", "ExecutionError", "OSError"}

\* error_message = None (no message execute() builds is empty).
NoMessage == <<>>

\* str(e) of the exceptions execute() can see.
CycleMessage == <<"Cycle", "detected", "in", "step", "dependencies">>
StepFailedMessage(name, cause) == <<"Step '", name, "' failed: ", cause>>

\* ExecutionResult(workflow, status=RUNNING, start_time=now())
NewResult ==
    [status |-> "RUNNING", step_states |-> <<>>, error_message |-> NoMessage, end_time |-> "None"]

\* Outcomes of an _execute_step task as seen by gather(return_exceptions=True).
TaskException == {"no_executor", "raised"}
TaskReturned == {"COMPLETED", "FAILED"}
TaskDone == TaskException \cup TaskReturned

\* isinstance(state, Exception) or state.status == FAILED in the check loop.
IsException(t) == t \in TaskException
IsFailedState_Ignored(t) == FALSE

IsFailedState(t) == t = "FAILED"

\* str(state) / state.error_message used in the aggregated message.
Cause(t) ==
    CASE t = "no_executor" -> "No suitable executor found"
      [] t = "raised" -> "executor raised"
      [] OTHER -> "error_message"

\* await asyncio.gather(...) resumes when every task of the layer is done.
GatherDone_FirstCompleted(layer) == \E s \in layer : tasks[s] \in TaskDone

GatherDone(layer) == \A s \in layer : tasks[s] \in TaskDone

\* Index of the first step of ord the check loop raises on (0: none).
FirstBad(ord) ==
    LET bad == {i \in DOMAIN ord : IsException(tasks[ord[i]]) \/ IsFailedState(tasks[ord[i]])}
    IN IF bad = {} THEN 0 ELSE CHOOSE i \in bad : \A j \in bad : i <= j

\* Steps whose state the check loop stores in result.step_states before it stops.
Recorded(ord) ==
    LET fb == FirstBad(ord)
    IN IF fb = 0 THEN Range(ord)
       ELSE {ord[i] : i \in 1..(fb - 1)} \cup
            (IF IsException(tasks[ord[fb]]) THEN {} ELSE {ord[fb]})

\* result.step_states after the check loop ran over ord.
RecordStates(ss, ord) ==
    LET rec == Recorded(ord)
    IN [s \in (DOMAIN ss) \cup rec |-> IF s \in rec THEN tasks[s] ELSE ss[s]]

\* The except / finally clauses of execute() for an exception of class exc.
HandleException(exc, msg, ss) ==
    IF Caught(exc)
    THEN /\ result' = [status |-> "FAILED", step_states |-> ss,
                       error_message |-> msg, end_time |-> "set"]
         /\ pc' = "returned"
    ELSE /\ result' = [result EXCEPT !.step_states = ss, !.end_time = "set"]
         /\ pc' = "raised"

\* Workflows: steps 1..n, depends_on entries naming any of StepNames
\* (a name above n is not a step of the workflow).
WorkflowEdges(n) == {E \in SUBSET ((1..n) \X StepNames) : Cardinality(E) <= MaxEdges}

InitEngine ==
    /\ \E n \in 0..NumSteps : \E E \in WorkflowEdges(n) :
          /\ wf_steps = 1..n
          /\ depends_on = [s \in 1..n |-> {d \in StepNames : <<s, d>> \in E}]
    /\ pc = "start"
    /\ execution_layers = <<>>
    /\ layer_idx = 0
    /\ tasks = [s \in wf_steps |-> "none"]
    /\ result = NewResult

\* dependencies[name] as add_step leaves it (a defaultdict: absent name -> empty set).
Dependencies == [s \in StepNames |-> IF s \in wf_steps THEN depends_on[s] ELSE {}]

\* execute(): get_execution_layers raises; the except clause builds the result.
ExecutePreflightError ==
    /\ pc = "start"
    /\ ~GetExecutionLayers(wf_steps, Dependencies).ok
    /\ HandleException("ValueError", CycleMessage, result.step_states)
    /\ UNCHANGED <<wf_steps, depends_on, execution_layers, layer_idx, tasks, tvars, rvars>>

\* execute(): the graph is built; the first layer is handed to gather
\* (an empty workflow skips the loop and completes).
ExecuteStart ==
    /\ pc = "start"
    /\ LET g == GetExecutionLayers(wf_steps, Dependencies)
       IN /\ g.ok
          /\ execution_layers' = g.layers
          /\ IF g.layers = <<>>
             THEN /\ result' = [result EXCEPT !.status = "COMPLETED", !.end_time = "set"]
                  /\ pc' = "returned"
                  /\ UNCHANGED <<layer_idx, tasks>>
             ELSE /\ layer_idx' = 1
                  /\ tasks' = [s \in wf_steps |->
                                 IF s \in g.layers[1] THEN "scheduled" ELSE tasks[s]]
                  /\ pc' = "gather"
                  /\ UNCHANGED result
    /\ UNCHANGED <<wf_steps, depends_on, tvars, rvars>>

\* _execute_step up to its first await: _find_executor, then executor.execute
\* creates the step directory and the RUNNING state.
ExecuteStepBegin(s) ==
    /\ pc = "gather"
    /\ tasks[s] = "scheduled"
    /\ \E o \in {"no_executor", "raised", "RUNNING"} : tasks' = [tasks EXCEPT ![s] = o]
    /\ UNCHANGED <<wf_steps, depends_on, pc, execution_layers, layer_idx, result, tvars, rvars>>

\* executor.execute returns: exit code 0 -> COMPLETED, otherwise (or an
\* exception inside its try) -> FAILED.
ExecutorReturns(s) ==
    /\ pc = "gather"
    /\ tasks[s] = "RUNNING"
    /\ \E o \in TaskReturned : tasks' = [tasks EXCEPT ![s] = o]
    /\ UNCHANGED <<wf_steps, depends_on, pc, execution_layers, layer_idx, result, tvars, rvars>>

\* gather returned and the check loop raises ExecutionError on a step of the layer.
LayerFails ==
    /\ pc = "gather"
    /\ GatherDone(execution_layers[layer_idx])
    /\ \E ord \in Orders(execution_layers[layer_idx]) :
          /\ FirstBad(ord) # 0
          /\ LET b == ord[FirstBad(ord)]
             IN HandleException("ExecutionError",
                                StepFailedMessage(b, Cause(tasks[b])),
                                RecordStates(result.step_states, ord))
    /\ UNCHANGED <<wf_steps, depends_on, execution_layers, layer_idx, tasks, tvars, rvars>>

\* gather returned, every state of the layer is recorded, the next layer is gathered.
LayerSucceeds ==
    /\ pc = "gather"
    /\ GatherDone(execution_layers[layer_idx])
    /\ layer_idx < Len(execution_layers)
    /\ \E ord \in Orders(execution_layers[layer_idx]) :
          /\ FirstBad(ord) = 0
          /\ result' = [result EXCEPT !.step_states = RecordStates(@, ord)]
    /\ layer_idx' = layer_idx + 1
    /\ tasks' = [s \in wf_steps |->
                   IF s \in execution_layers[layer_idx + 1] THEN "scheduled" ELSE tasks[s]]
    /\ UNCHANGED <<wf_steps, depends_on, pc, execution_layers, tvars, rvars>>

\* The last layer passed the check loop: result.status = COMPLETED, finally, return.
ExecuteCompletes ==
    /\ pc = "gather"
    /\ GatherDone(execution_layers[layer_idx])
    /\ layer_idx = Len(execution_layers)
    /\ \E ord \in Orders(execution_layers[layer_idx]) :
          /\ FirstBad(ord) = 0
          /\ result' = [result EXCEPT !.step_states = RecordStates(@, ord),
                                      !.status = "COMPLETED", !.end_time = "set"]
    /\ pc' = "returned"
    /\ UNCHANGED <<wf_steps, depends_on, execution_layers, layer_idx, tasks, tvars, rvars>>

\* ====================================================================
\* Part II  Threaded engine: ExecutionContext, TaskScheduler, ExecutionEngine
\* ====================================================================

\* ---- the host, as the code reads it
\* os.cpu_count()
HostCpus == 2
\* psutil.virtual_memory().available, in MB (taken as fixed during a run)
AvailMemoryMB == 2
\* torch.cuda.device_count()
HostGpus == 1
\* Largest number of steps of a workflow with non-default resources.
MaxHeavy == 2

available_memory == AvailMemoryMB * 1024 * 1024

\* ExecutionEngine.__init__: max_workers or os.cpu_count() or 1
max_workers == HostCpus

\* ExecutionContext._parse_memory: <number><unit> -> bytes (binary unit table).
ParseMemory(m) ==
    m.value * (CASE m.unit = "B" -> 1
                 [] m.unit = "KB" -> 1024
                 [] m.unit = "MB" -> 1024 * 1024
                 [] m.unit = "GB" -> 1024 * 1024 * 1024
                 [] m.unit = "TB" -> 1024 * 1024 * 1024 * 1024)

\* ResourceRequirements of a step that sets nothing special (gpu 0 stands for None).
DefaultResources == [cpu |-> 1, memory |-> [value |-> 1, unit |-> "MB"], gpu |-> 0]

\* Requirements that take a whole host resource, or more CPUs than the host has
\* (ResourceRequirements is a plain dataclass: nothing bounds its fields).
HeavyResources ==
    { [cpu |-> HostCpus, memory |-> [value |-> 1, unit |-> "MB"], gpu |-> 0],
      [cpu |-> 1, memory |-> [value |-> AvailMemoryMB * 1024, unit |-> "KB"], gpu |-> 0],
      [cpu |-> 1, memory |-> [value |-> 1, unit |-> "MB"], gpu |-> HostGpus],
      [cpu |-> HostCpus + 1, memory |-> [value |-> 1, unit |-> "MB"], gpu |-> 0] }

\* ExecutionContext.can_run_step
CanRunStep(step_name) ==
    LET r == resources[step_name]
    IN /\ ~(allocated_cpus + r.cpu > HostCpus)
       /\ ~(allocated_memory + ParseMemory(r.memory) > available_memory)
       /\ ~(r.gpu # 0 /\ allocated_gpus + r.gpu > HostGpus)

\* ExecutionContext.allocate_resources
AllocateResources(step_name) ==
    LET r == resources[step_name]
    IN /\ allocated_cpus' = allocated_cpus + r.cpu
       /\ allocated_memory' = allocated_memory + ParseMemory(r.memory)
       /\ allocated_gpus' = IF r.gpu # 0 THEN allocated_gpus + r.gpu ELSE allocated_gpus

ReleaseResources_KeepsGpus(step_name) ==
    LET r == resources[step_name]
    IN /\ allocated_cpus' = allocated_cpus - r.cpu
       /\ allocated_memory' = allocated_memory - ParseMemory(r.memory)
       /\ allocated_gpus' = allocated_gpus

\* ExecutionContext.release_resources
ReleaseResources(step_name) ==
    LET r == resources[step_name]
    IN /\ allocated_cpus' = allocated_cpus - r.cpu
       /\ allocated_memory' = allocated_memory - ParseMemory(r.memory)
       /\ allocated_gpus' = IF r.gpu # 0 THEN allocated_gpus - r.gpu ELSE allocated_gpus

\* TaskScheduler.dependents, as _build_dependency_graph fills it
Dependents(step_name) == {d \in DOMAIN after : step_name \in after[d]}

\* TaskScheduler._are_dependencies_met, against the completed set comp
AreDependenciesMet_Any(comp, step_name) ==
    after[step_name] = {} \/ \E dep \in after[step_name] : dep \in comp

AreDependenciesMet(comp, step_name) == \A dep \in after[step_name] : dep \in comp

\* TaskScheduler.is_complete
IsComplete ==
    /\ Cardinality(completed) + Cardinality(failed) = Cardinality(DOMAIN after)
    /\ running = {}

\* get_next_step: "already running or completed" entries are dropped from the queue
Skipped(step_name) == step_name \in running \/ step_name \in completed

\* get_next_step: an entry the loop returns
Handable(step_name) ==
    /\ ~Skipped(step_name)
    /\ AreDependenciesMet(completed, step_name)
    /\ CanRunStep(step_name)

\* TaskScheduler.get_next_step, run under the scheduler lock on queue q.
\* The loop pops the head; drops it, puts it back at the tail, or returns it.
\* Nothing it reads changes while it holds the lock, so it returns the first
\* handable entry, returns None once the queue is empty, and otherwise keeps
\* popping and putting back for ever (kind "spin").
GetNextStep(q) ==
    LET idx == {i \in DOMAIN q : Handable(q[i])}
        Kept(seq) == SelectSeq(seq, LAMBDA s : ~Skipped(s))
    IN IF idx # {}
       THEN LET i == CHOOSE k \in idx : \A j \in idx : k <= j
            IN [kind |-> "step", step |-> q[i],
                queue |-> SubSeq(q, i + 1, Len(q)) \o Kept(SubSeq(q, 1, i - 1))]
       ELSE IF Kept(q) = <<>>
            THEN [kind |-> "none", step |-> 0, queue |-> <<>>]
            ELSE [kind |-> "spin", step |-> 0, queue |-> Kept(q)]

\* The scheduler lock is free unless get_next_step is looping with it.
LockFree == main_pc \notin {"spinning", "handler_locked"}

\* ExecutionEngine._cleanup_futures: done futures are removed from self.futures
CleanupFutures(fs) == {n \in fs : worker[n] # "done"}

\* No call has been made on the scheduler by a client.
NoCall == [op |-> "none", step |-> 0, raised |-> FALSE, n |-> 0]

\* Acyclic workflows with known dependencies (TaskScheduler construction
\* succeeds): steps numbered so that every `after` entry has a smaller number.
DagEdges ==
    {E \in SUBSET {e \in StepNames \X StepNames : e[2] < e[1]} : Cardinality(E) <= MaxEdges}

ResourceChoices ==
    UNION {[H -> HeavyResources] : H \in {X \in SUBSET StepNames : Cardinality(X) <= MaxHeavy}}

\* ExecutionContext and TaskScheduler as their constructors leave them (roots
\* queued in the order of workflow.steps).
ConstructedScheduler ==
    /\ \E E \in DagEdges : after = [s \in StepNames |-> {d \in StepNames : <<s, d>> \in E}]
    /\ \E hp \in ResourceChoices :
          resources = [s \in StepNames |-> IF s \in DOMAIN hp THEN hp[s] ELSE DefaultResources]
    /\ pending \in Orders({s \in StepNames : after[s] = {}})
    /\ running = {}
    /\ completed = {}
    /\ failed = {}
    /\ status = [s \in StepNames |-> "pending"]
    /\ allocated_cpus = 0
    /\ allocated_memory = 0
    /\ allocated_gpus = 0
    /\ futures = {}
    /\ worker = [s \in StepNames |-> "none"]
    /\ success = "none"
    /\ containers = {}
    /\ alive = {}
    /\ sd_size = 0
    /\ sd_done = {}
    /\ dependents = [s \in StepNames |-> Dependents(s)]
    /\ build_pc = "built"
    /\ dispatched = [s \in StepNames |-> 0]
    /\ sched_call = NoCall

\* State after ExecutionEngine.__init__; execute() is about to enter its loop.
InitScheduler == ConstructedScheduler /\ main_pc = "loop"

\* execute(): one pass of the main loop in which get_next_step hands out a step:
\* the step is submitted to the pool, _cleanup_futures runs, the thread sleeps.
MainSubmitsStep ==
    /\ main_pc = "loop"
    /\ ~IsComplete
    /\ LET g == GetNextStep(pending)
       IN /\ g.kind = "step"
          /\ pending' = g.queue
          /\ worker' = [worker EXCEPT ![g.step] = "submitted"]
          /\ futures' = CleanupFutures(futures \cup {g.step})
          /\ dispatched' = [dispatched EXCEPT ![g.step] = IF @ < 2 THEN @ + 1 ELSE @]
    /\ main_pc' = "sleep"
    /\ UNCHANGED <<after, resources, running, completed, failed, status, allocated_cpus,
                   allocated_memory, allocated_gpus, success, kvars, dependents, build_pc,
                   sched_call, evars, rvars>>

\* execute(): one pass of the main loop in which get_next_step returns None.
MainGetsNone ==
    /\ main_pc = "loop"
    /\ ~IsComplete
    /\ LET g == GetNextStep(pending)
       IN /\ g.kind = "none"
          /\ pending' = g.queue
          /\ futures' = CleanupFutures(futures)
    /\ main_pc' = "sleep"
    /\ UNCHANGED <<after, resources, running, completed, failed, status, allocated_cpus,
                   allocated_memory, allocated_gpus, worker, success, kvars, bvars, evars, rvars>>

\* execute(): time.sleep(0.1) ends and the loop condition is evaluated again.
MainWakes ==
    /\ main_pc = "sleep"
    /\ main_pc' = "loop"
    /\ UNCHANGED <<after, resources, pending, running, completed, failed, status,
                   allocated_cpus, allocated_memory, allocated_gpus, futures, worker,
                   success, kvars, bvars, evars, rvars>>

\* execute(): get_next_step finds only entries it puts back; its loop never ends
\* and the scheduler lock stays held (main_pc = "spinning" has no way out).
MainSpins ==
    /\ main_pc = "loop"
    /\ ~IsComplete
    /\ LET g == GetNextStep(pending)
       IN /\ g.kind = "spin"
          /\ pending' = g.queue
    /\ main_pc' = "spinning"
    /\ UNCHANGED <<after, resources, running, completed, failed, status, allocated_cpus,
                   allocated_memory, allocated_gpus, futures, worker, success, kvars, bvars, evars, rvars>>

\* execute(): is_complete() holds; remaining futures are awaited, the result is
\* not has_failed_steps(), and the finally clause calls shutdown().
MainReturns ==
    /\ main_pc = "loop"
    /\ IsComplete
    /\ \A n \in futures : worker[n] = "done"
    /\ success' = IF failed = {} THEN "True" ELSE "False"
    /\ main_pc' = "returned"
    /\ UNCHANGED <<after, resources, pending, running, completed, failed, status,
                   allocated_cpus, allocated_memory, allocated_gpus, futures, worker, kvars, bvars, evars, rvars>>

MarkStepFailed_Requeues(step_name) ==
    /\ running' = running \ {step_name}
    /\ failed' = failed \cup {step_name}
    /\ status' = [status EXCEPT ![step_name] = "failed"]
    /\ ReleaseResources(step_name)
    /\ pending' = Append(pending, step_name)
    /\ UNCHANGED completed

\* TaskScheduler.mark_step_failed (the step is in running)
MarkStepFailed(step_name) ==
    /\ running' = running \ {step_name}
    /\ failed' = failed \cup {step_name}
    /\ status' = [status EXCEPT ![step_name] = "failed"]
    /\ ReleaseResources(step_name)
    /\ UNCHANGED <<completed, pending>>

MarkStepCompleted_QueuesEveryDependent(step_name) ==
    /\ running' = running \ {step_name}
    /\ completed' = completed \cup {step_name}
    /\ status' = [status EXCEPT ![step_name] = "completed"]
    /\ ReleaseResources(step_name)
    /\ \E ord \in Orders(Dependents(step_name)) : pending' = pending \o ord
    /\ UNCHANGED failed

\* TaskScheduler.mark_step_completed (the step is in running); dependents whose
\* dependencies are now all completed are queued, in the set's iteration order.
MarkStepCompleted(step_name) ==
    /\ running' = running \ {step_name}
    /\ completed' = completed \cup {step_name}
    /\ status' = [status EXCEPT ![step_name] = "completed"]
    /\ ReleaseResources(step_name)
    /\ \E ord \in Orders({d \in Dependents(step_name) :
                            AreDependenciesMet(completed \cup {step_name}, d)}) :
          pending' = pending \o ord
    /\ UNCHANGED failed

MarkStepRunning_KeepsStatus(step_name) ==
    /\ running' = running \cup {step_name}
    /\ AllocateResources(step_name)
    /\ UNCHANGED <<completed, failed, pending, status>>

\* TaskScheduler.mark_step_running (the step is not in running)
MarkStepRunning(step_name) ==
    /\ running' = running \cup {step_name}
    /\ status' = [status EXCEPT ![step_name] = "running"]
    /\ AllocateResources(step_name)
    /\ UNCHANGED <<completed, failed, pending>>

\* Steps whose _execute_step call occupies a pool thread past mark_step_running.
Busy == {w \in DOMAIN worker : worker[w] \in {"process", "started", "tracked"}}

\* _execute_step on a pool thread: mark_step_running.
\* mark_step_running raises when the step is already running; the handler of
\* _execute_step then calls mark_step_failed.
WorkerMarksRunning(s) ==
    /\ worker[s] = "submitted"
    /\ LockFree
    /\ Cardinality(Busy) < max_workers
    /\ IF s \in running
       THEN /\ MarkStepFailed(s)
            /\ worker' = [worker EXCEPT ![s] = "done"]
       ELSE /\ MarkStepRunning(s)
            /\ worker' = [worker EXCEPT ![s] = "process"]
    /\ UNCHANGED <<after, resources, futures, main_pc, success, kvars, bvars, evars, rvars>>

\* _execute_step: Popen starts `docker run -d`, the daemon starts the container
\* and readline() returns its id. A container runs until it is stopped: one
\* whose command ends by itself only leaves `alive` earlier.
WorkerStartsContainer(s) ==
    /\ worker[s] = "process"
    /\ alive' = alive \cup {s}
    /\ worker' = [worker EXCEPT ![s] = "started"]
    /\ UNCHANGED <<after, resources, pending, running, completed, failed, status,
                   allocated_cpus, allocated_memory, allocated_gpus, futures, main_pc,
                   success, containers, sd_size, sd_done, bvars, evars, rvars>>

\* _execute_step: self.containers.add(container_id)
WorkerTracksContainer(s) ==
    /\ worker[s] = "started"
    /\ containers' = containers \cup {s}
    /\ worker' = [worker EXCEPT ![s] = "tracked"]
    /\ UNCHANGED <<after, resources, pending, running, completed, failed, status,
                   allocated_cpus, allocated_memory, allocated_gpus, futures, main_pc,
                   success, alive, sd_size, sd_done, bvars, evars, rvars>>

\* _execute_step: communicate() returns the exit code of `docker run -d` (or
\* Popen raised, and no container was started) and the outcome is recorded:
\* exit code 0 -> mark_step_completed, otherwise -> mark_step_failed; then the
\* container id is removed from self.containers.
\* A mark_* call on a step that is not running raises out of _execute_step.
WorkerStepExits(s) ==
    /\ worker[s] \in {"process", "tracked"}
    /\ LockFree
    /\ \E exit_code \in {0, 1} :
          /\ worker[s] = "process" => exit_code = 1
          /\ IF s \notin running
             THEN /\ worker' = [worker EXCEPT ![s] = "raised"]
                  /\ UNCHANGED <<running, completed, failed, status, pending,
                                 allocated_cpus, allocated_memory, allocated_gpus,
                                 containers>>
             ELSE /\ worker' = [worker EXCEPT ![s] = "done"]
                  /\ IF exit_code = 0 THEN MarkStepCompleted(s) ELSE MarkStepFailed(s)
                  /\ containers' = containers \ {s}
    /\ UNCHANGED <<after, resources, futures, main_pc, success, alive, sd_size, sd_done,
                   bvars, evars, rvars>>

\* ---- shutdown on SIGINT / SIGTERM
\* Positions of the main thread inside shutdown(): called by the signal handler
\* (with the scheduler lock held when get_next_step was interrupted), or by the
\* finally clause of execute() that sys.exit(1) unwinds through.
ShutdownPositions == {"handler", "handler_locked", "finally"}

\* Future.cancel() succeeds on the futures no pool thread has picked up; the
\* pool has max_workers threads, so the others fit into the threads left.
Cancellable ==
    LET queued == {s \in futures : worker[s] = "submitted"}
    IN {C \in SUBSET queued : Cardinality((queued \ C) \cup Busy) <= max_workers}

\* The handler installed by _setup_signal_handlers runs on the main thread while
\* execute() is in its loop: shutdown() cancels the futures and begins its loop
\* over self.containers.
SignalArrives ==
    /\ main_pc \in {"loop", "sleep", "spinning"}
    /\ main_pc' = IF main_pc = "spinning" THEN "handler_locked" ELSE "handler"
    /\ \E C \in Cancellable :
          worker' = [s \in DOMAIN worker |-> IF s \in C THEN "cancelled" ELSE worker[s]]
    /\ sd_size' = Cardinality(containers)
    /\ sd_done' = {}
    /\ UNCHANGED <<after, resources, pending, running, completed, failed, status,
                   allocated_cpus, allocated_memory, allocated_gpus, futures, success,
                   containers, alive, bvars, evars, rvars>>

\* shutdown(): one pass of `for container_id in self.containers`: docker stop
\* and docker rm of the next id (the set iterator raises instead when the set
\* has changed size).
ShutdownStopsContainer ==
    /\ main_pc \in ShutdownPositions
    /\ Cardinality(containers) = sd_size
    /\ \E c \in containers \ sd_done :
          /\ alive' = alive \ {c}
          /\ sd_done' = sd_done \cup {c}
    /\ UNCHANGED <<after, resources, pending, running, completed, failed, status,
                   allocated_cpus, allocated_memory, allocated_gpus, futures, worker,
                   main_pc, success, containers, sd_size, bvars, evars, rvars>>

\* shutdown(): the for loop ends, or the set iterator raises RuntimeError (set
\* changed size during iteration), which the outer handler logs; shutdown()
\* returns. In the signal handler sys.exit(1) follows: SystemExit leaves
\* get_next_step (releasing the lock) and execute(), whose finally clause calls
\* shutdown() again; the futures still in self.futures are running by then.
ShutdownReturns_ClearsRunning ==
    /\ main_pc \in ShutdownPositions
    /\ Cardinality(containers) # sd_size \/ containers \subseteq sd_done
    /\ main_pc' = IF main_pc = "finally" THEN "exited" ELSE "finally"
    /\ sd_size' = IF main_pc = "finally" THEN 0 ELSE Cardinality(containers)
    /\ sd_done' = {}
    /\ running' = {}
    /\ UNCHANGED <<after, resources, pending, completed, failed, status,
                   allocated_cpus, allocated_memory, allocated_gpus, futures, worker,
                   success, containers, alive, bvars, evars, rvars>>

ShutdownReturns ==
    /\ main_pc \in ShutdownPositions
    /\ Cardinality(containers) # sd_size \/ containers \subseteq sd_done
    /\ main_pc' = IF main_pc = "finally" THEN "exited" ELSE "finally"
    /\ sd_size' = IF main_pc = "finally" THEN 0 ELSE Cardinality(containers)
    /\ sd_done' = {}
    /\ UNCHANGED <<after, resources, pending, running, completed, failed, status,
                   allocated_cpus, allocated_memory, allocated_gpus, futures, worker,
                   success, containers, alive, bvars, evars, rvars>>

\* ---- TaskScheduler.__init__: _build_dependency_graph and _check_cycles
\* `for dep in self.dependencies[name]`, ord being the order in which the set
\* iterates: an unknown name raises SchedulerError, and self.dependents[dep]
\* raises KeyError for a step the outer loop has not reached yet.
RECURSIVE AddReverseDependencies(_, _, _)
AddReverseDependencies(dd, name, ord) ==
    IF ord = <<>> THEN [ok |-> TRUE, dependents |-> dd]
    ELSE LET dep == Head(ord)
         IN IF dep \notin DOMAIN after \/ dep \notin DOMAIN dd
            THEN [ok |-> FALSE, dependents |-> dd]
            ELSE AddReverseDependencies([dd EXCEPT ![dep] = @ \cup {name}], name, Tail(ord))

\* Workflows as declared: steps 1..n in the order of workflow.steps, `after`
\* entries naming any of StepNames (a name above n is not a step).
InitBuild ==
    /\ \E n \in 1..NumSteps : \E E \in WorkflowEdges(n) :
          after = [s \in 1..n |-> {d \in StepNames : <<s, d>> \in E}]
    /\ resources = [s \in DOMAIN after |-> DefaultResources]
    /\ pending = <<>>
    /\ running = {}
    /\ completed = {}
    /\ failed = {}
    /\ status = [s \in DOMAIN after |-> "pending"]
    /\ allocated_cpus = 0
    /\ allocated_memory = 0
    /\ allocated_gpus = 0
    /\ futures = {}
    /\ worker = [s \in DOMAIN after |-> "none"]
    /\ main_pc = "idle"
    /\ success = "none"
    /\ containers = {}
    /\ alive = {}
    /\ sd_size = 0
    /\ sd_done = {}
    /\ dependents = <<>>
    /\ build_pc = "for_steps"
    /\ dispatched = [s \in DOMAIN after |-> 0]
    /\ sched_call = NoCall

\* One pass of `for name, step in self.workflow.steps.items()`; any exception
\* leaves __init__ as SchedulerError("Failed to build dependency graph: ...").
BuildStepEntry ==
    /\ build_pc = "for_steps"
    /\ LET name == Cardinality(DOMAIN dependents) + 1
           d0 == [s \in DOMAIN dependents \cup {name} |->
                    IF s = name THEN {} ELSE dependents[s]]
       IN \E ord \in Orders(after[name]) :
             LET r == AddReverseDependencies(d0, name, ord)
             IN /\ dependents' = r.dependents
                /\ build_pc' = IF ~r.ok THEN "SchedulerError"
                               ELSE IF name = Cardinality(DOMAIN after) THEN "check_cycles"
                               ELSE "for_steps"
    /\ UNCHANGED <<after, resources, pending, running, completed, failed, status,
                   allocated_cpus, allocated_memory, allocated_gpus, futures, worker,
                   main_pc, success, kvars, dispatched, sched_call, evars, rvars>>

RECURSIVE CheckDfs(_, _, _, _)
RECURSIVE CheckDfsDependents(_, _, _, _, _)
\* dfs(step) of _check_cycles with the sets visited and path, ord[s] being the
\* order in which dependents[s] iterates: whether it raises, and visited as it
\* leaves it.
CheckDfs(step, seen, path, ord) ==
    IF step \in path THEN [raised |-> TRUE, visited |-> seen]
    ELSE IF step \in seen THEN [raised |-> FALSE, visited |-> seen]
    ELSE CheckDfsDependents(step, 1, seen \cup {step}, path \cup {step}, ord)

\* `for dep in self.dependents[step]` from its i-th entry on, then
\* path.remove(step).
CheckDfsDependents(step, i, seen, path, ord) ==
    IF i > Len(ord[step]) THEN [raised |-> FALSE, visited |-> seen]
    ELSE LET r == CheckDfs(ord[step][i], seen, path, ord)
         IN IF r.raised THEN r
            ELSE CheckDfsDependents(step, i + 1, r.visited, path, ord)

RECURSIVE CheckCyclesFrom(_, _, _)
\* `for step in self.workflow.steps` from `step` on: whether a dfs raises.
CheckCyclesFrom(step, seen, ord) ==
    IF step > Cardinality(DOMAIN after) THEN FALSE
    ELSE IF step \in seen THEN CheckCyclesFrom(step + 1, seen, ord)
    ELSE LET r == CheckDfs(step, seen, {}, ord)
         IN r.raised \/ CheckCyclesFrom(step + 1, r.visited, ord)

\* _check_cycles
CheckCycles ==
    /\ build_pc = "check_cycles"
    /\ \E ord \in {f \in [DOMAIN dependents -> UNION {Orders(dependents[n]) : n \in DOMAIN dependents}] :
                     \A n \in DOMAIN dependents : f[n] \in Orders(dependents[n])} :
          build_pc' = IF CheckCyclesFrom(1, {}, ord) THEN "SchedulerError" ELSE "queue"
    /\ UNCHANGED <<after, resources, pending, running, completed, failed, status,
                   allocated_cpus, allocated_memory, allocated_gpus, futures, worker,
                   main_pc, success, kvars, dependents, dispatched, sched_call, evars, rvars>>

\* "Queue steps with no dependencies", in the order of self.dependencies.
QueueRoots ==
    /\ build_pc = "queue"
    /\ pending' = SelectSeq([i \in 1..Cardinality(DOMAIN after) |-> i],
                            LAMBDA s : after[s] = {})
    /\ build_pc' = "built"
    /\ UNCHANGED <<after, resources, running, completed, failed, status,
                   allocated_cpus, allocated_memory, allocated_gpus, futures, worker,
                   main_pc, success, kvars, dependents, dispatched, sched_call, evars, rvars>>

\* ---- the TaskScheduler under the calls of any client
\* Largest number of calls a client makes.
MaxCalls == 3

\* `if step_name in self.running: raise SchedulerError` of mark_step_running
RejectsMarkRunning(step_name) == step_name \in running

RejectsMarkDone_Never(step_name) == FALSE

\* `if step_name not in self.running: raise SchedulerError` of
\* mark_step_completed and mark_step_failed
RejectsMarkDone(step_name) == step_name \notin running

\* The call returned.
CallReturns(op, step_name) ==
    sched_call' = [op |-> op, step |-> step_name, raised |-> FALSE, n |-> sched_call.n + 1]

\* The call raised SchedulerError at its first statement.
CallRaises(op, step_name) ==
    /\ sched_call' = [op |-> op, step |-> step_name, raised |-> TRUE, n |-> sched_call.n + 1]
    /\ UNCHANGED <<pending, running, completed, failed, status,
                   allocated_cpus, allocated_memory, allocated_gpus>>

InitClient == ConstructedScheduler /\ main_pc = "client"

\* get_next_step() (a call whose loop never ends keeps the lock for ever).
ClientGetsNextStep ==
    /\ main_pc = "client"
    /\ sched_call.n < MaxCalls
    /\ LET g == GetNextStep(pending)
       IN /\ pending' = g.queue
          /\ main_pc' = IF g.kind = "spin" THEN "spinning" ELSE main_pc
          /\ CallReturns("get_next_step", g.step)
    /\ UNCHANGED <<after, resources, running, completed, failed, status, allocated_cpus,
                   allocated_memory, allocated_gpus, futures, worker, success, kvars,
                   dependents, build_pc, dispatched, evars, rvars>>

\* mark_step_running(s) for a step s of the workflow
ClientMarksRunning(s) ==
    /\ main_pc = "client"
    /\ sched_call.n < MaxCalls
    /\ IF RejectsMarkRunning(s)
       THEN CallRaises("mark_step_running", s)
       ELSE MarkStepRunning(s) /\ CallReturns("mark_step_running", s)
    /\ UNCHANGED <<after, resources, futures, worker, main_pc, success, kvars,
                   dependents, build_pc, dispatched, evars, rvars>>

\* mark_step_completed(s) for a step s of the workflow
ClientMarksCompleted(s) ==
    /\ main_pc = "client"
    /\ sched_call.n < MaxCalls
    /\ IF RejectsMarkDone(s)
       THEN CallRaises("mark_step_completed", s)
       ELSE MarkStepCompleted(s) /\ CallReturns("mark_step_completed", s)
    /\ UNCHANGED <<after, resources, futures, worker, main_pc, success, kvars,
                   dependents, build_pc, dispatched, evars, rvars>>

\* mark_step_failed(s, error_msg) for a step s of the workflow
ClientMarksFailed(s) ==
    /\ main_pc = "client"
    /\ sched_call.n < MaxCalls
    /\ IF RejectsMarkDone(s)
       THEN CallRaises("mark_step_failed", s)
       ELSE MarkStepFailed(s) /\ CallReturns("mark_step_failed", s)
    /\ UNCHANGED <<after, resources, futures, worker, main_pc, success, kvars,
                   dependents, build_pc, dispatched, evars, rvars>>

\* ====================================================================
\* Part III  bioflow DependencyResolver (parser/resolvers/dependency.py) and
\*           ExecutionDependencyResolver.add_step (engine/dependency.py)
\* ====================================================================

\* Steps are numbered in the order add_step receives them; self.nodes and
\* self.steps are dicts, so they iterate in that order.
Added == DOMAIN nodes

\* DependencyResolver.add_dependency on the node table nd.
AddDependency(nd, from_step, to_step) ==
    IF from_step \notin DOMAIN nd \/ to_step \notin DOMAIN nd THEN nd
    ELSE LET n1 == [nd EXCEPT ![from_step].dependencies = @ \cup {to_step}]
         IN [n1 EXCEPT ![to_step].dependents = @ \cup {from_step}]

RECURSIVE AddDependencies(_, _, _)
\* add_dependency(from_step, t) for every t of targets.
AddDependencies(nd, from_step, targets) ==
    IF targets = {} THEN nd
    ELSE LET t == CHOOSE x \in targets : TRUE
         IN AddDependencies(AddDependency(nd, from_step, t), from_step, targets \ {t})

\* _add_implicit_dependencies / _add_dependencies_from_string: one add_dependency
\* per ${steps.X.outputs.*} token whose X is not the step itself.
AddImplicitDependencies(nd, name, refs) == AddDependencies(nd, name, refs \ {name})

\* DependencyResolver.add_step up to its loop over step.steps: the node is
\* created, the step is registered as dependent of the dependencies that are
\* already nodes, then the implicit dependencies are added.
NodesAfterAddStep(nd, name, deps, refs) ==
    LET n0 == [n \in DOMAIN nd \cup {name} |->
                 IF n = name THEN [dependencies |-> deps, dependents |-> {}] ELSE nd[n]]
        n1 == [n \in DOMAIN n0 |->
                 IF n \in deps THEN [n0[n] EXCEPT !.dependents = @ \cup {name}] ELSE n0[n]]
    IN AddImplicitDependencies(n1, name, refs)

RECURSIVE NestedIn(_, _)
\* The steps nested in step p at any depth, for the parent table par (0: the
\* step is one of workflow.steps).
NestedIn(par, p) ==
    LET kids == {c \in DOMAIN par : par[c] = p}
    IN kids \cup UNION {NestedIn(par, c) : c \in kids}

\* Nestings of the steps: a step and the steps nested in it are numbered in
\* the order add_step reaches them (the step, then each nested step with its
\* own nested steps).
Nestings ==
    {par \in [StepNames -> 0..NumSteps] :
        \A c \in StepNames :
            /\ par[c] < c
            /\ par[c] # 0 => \A k \in (par[c] + 1)..(c - 1) : k \in NestedIn(par, par[c])}

\* Explicit and implicit edges and nesting of the workflows handed to the
\* resolvers.
ResolverInputs ==
    {I \in [explicit : SUBSET (StepNames \X StepNames),
            implicit : SUBSET (StepNames \X StepNames),
            parent : Nestings] :
        Cardinality(I.explicit) + Cardinality(I.implicit)
            + Cardinality({c \in StepNames : I.parent[c] # 0}) <= MaxEdges}

InitResolver ==
    /\ \E I \in ResolverInputs :
          /\ step_depends_on = [s \in StepNames |-> {d \in StepNames : <<s, d>> \in I.explicit}]
          /\ step_references = [s \in StepNames |-> {d \in StepNames : <<s, d>> \in I.implicit}]
          /\ step_steps = [s \in StepNames |-> {c \in StepNames : I.parent[c] = s}]
    /\ dr_steps = {}
    /\ nodes = <<>>
    /\ dependencies = [s \in StepNames |-> {}]
    /\ dep_order = <<>>
    /\ dr_pc = "add_step"
    /\ dr_layers = [ok |-> FALSE, layers |-> <<>>]
    /\ visited = {}
    /\ temp_visited = {}
    /\ call_stack = <<>>
    /\ cycle = <<>>
    /\ sorted_steps = <<>>

RECURSIVE AddStepTo(_, _)
RECURSIVE AddNestedSteps(_, _, _)
\* DependencyResolver.add_step(step) on the node table nd: the step itself,
\* then `for nested_step in step.steps`.
AddStepTo(nd, name) ==
    AddNestedSteps(NodesAfterAddStep(nd, name, step_depends_on[name], step_references[name]),
                   name, step_steps[name])

\* The loop over step.steps (a list, in its order): add_step(nested_step), then
\* add_dependency(nested_step.name, step.name).
AddNestedSteps(nd, name, nested) ==
    IF nested = {} THEN nd
    ELSE LET nested_step == CHOOSE c \in nested : \A d \in nested : c <= d
         IN AddNestedSteps(AddDependency(AddStepTo(nd, nested_step), nested_step, name),
                           name, nested \ {nested_step})

\* ExecutionDependencyResolver.add_step for the next step of workflow.steps:
\* the parser's resolver receives the step with its nested steps, self.steps
\* and self.dependencies receive the step alone.
AddStep ==
    /\ dr_pc = "add_step"
    /\ LET name == Cardinality(Added) + 1
       IN /\ nodes' = AddStepTo(nodes, name)
          /\ dr_steps' = dr_steps \cup {name}
          /\ dependencies' = [dependencies EXCEPT ![name] = @ \cup step_depends_on[name]]
          /\ dr_pc' = IF DOMAIN nodes' = StepNames THEN "get_execution_layers" ELSE "add_step"
    /\ UNCHANGED <<step_depends_on, step_references, step_steps, dep_order, dr_layers, visited,
                   temp_visited, call_stack, cycle, sorted_steps, evars, tvars, gvars, svars, cvars, xvars>>

\* ExecutionDependencyResolver.get_execution_layers over the added steps.
GetExecutionLayersCall ==
    /\ dr_pc = "get_execution_layers"
    /\ dr_layers' = GetExecutionLayers(dr_steps, dependencies)
    /\ dr_pc' = "sort"
    /\ UNCHANGED <<step_depends_on, step_references, step_steps, dr_steps, nodes, dependencies, dep_order,
                   visited, temp_visited, call_stack, cycle, sorted_steps, evars, tvars, gvars, svars, cvars, xvars>>

\* sort(): sorted_steps is empty, validate() is called. Each dependencies set
\* iterates in some order, the same every time the set is iterated.
SortCallsValidate ==
    /\ dr_pc = "sort"
    /\ dep_order' \in {f \in [Added -> UNION {Orders(nodes[n].dependencies) : n \in Added}] :
                          \A n \in Added : f[n] \in Orders(nodes[n].dependencies)}
    /\ dr_pc' = "validate"
    /\ UNCHANGED <<step_depends_on, step_references, step_steps, dr_steps, nodes, dependencies, dr_layers,
                   visited, temp_visited, call_stack, cycle, sorted_steps, evars, tvars, gvars, svars, cvars, xvars>>

\* validate(): the `for node_name in self.nodes` loop reaches the next node that is
\* not visited and calls visit on it (no visit is active, so temp_visited is empty).
ValidateVisitsRoot ==
    /\ dr_pc = "validate"
    /\ call_stack = <<>>
    /\ Added \ visited # {}
    /\ LET node_name == CHOOSE n \in Added \ visited : \A m \in Added \ visited : n <= m
       IN /\ temp_visited' = temp_visited \cup {node_name}
          /\ call_stack' = <<[node |-> node_name, next |-> 1]>>
    /\ UNCHANGED <<step_depends_on, step_references, step_steps, dr_steps, nodes, dependencies, dep_order, dr_pc,
                   dr_layers, visited, cycle, sorted_steps, evars, tvars, gvars, svars, cvars, xvars>>

\* visit(): the `for dep in dependencies` loop of the innermost call takes its
\* next entry and calls visit(dep): a node in temp_visited starts _find_cycle,
\* a visited node returns at once, any other node becomes the innermost call.
VisitNextDependency ==
    /\ dr_pc = "validate"
    /\ call_stack # <<>>
    /\ LET top == call_stack[Len(call_stack)]
           ord == dep_order[top.node]
       IN /\ top.next <= Len(ord)
          /\ LET dep == ord[top.next]
                 stepped == [call_stack EXCEPT ![Len(call_stack)].next = @ + 1]
             IN IF dep \in temp_visited
                THEN /\ cycle' = <<dep>>
                     /\ dr_pc' = "find_cycle"
                     /\ UNCHANGED <<call_stack, temp_visited>>
                ELSE IF dep \in visited
                THEN /\ call_stack' = stepped
                     /\ UNCHANGED <<cycle, dr_pc, temp_visited>>
                ELSE /\ call_stack' = Append(stepped, [node |-> dep, next |-> 1])
                     /\ temp_visited' = temp_visited \cup {dep}
                     /\ UNCHANGED <<cycle, dr_pc>>
    /\ UNCHANGED <<step_depends_on, step_references, step_steps, dr_steps, nodes, dependencies, dep_order,
                   dr_layers, visited, sorted_steps, evars, tvars, gvars, svars, cvars, xvars>>

\* visit(): the loop of the innermost call is over; the node leaves temp_visited
\* and joins visited.
VisitReturns ==
    /\ dr_pc = "validate"
    /\ call_stack # <<>>
    /\ LET top == call_stack[Len(call_stack)]
       IN /\ top.next > Len(dep_order[top.node])
          /\ temp_visited' = temp_visited \ {top.node}
          /\ visited' = visited \cup {top.node}
          /\ call_stack' = SubSeq(call_stack, 1, Len(call_stack) - 1)
    /\ UNCHANGED <<step_depends_on, step_references, step_steps, dr_steps, nodes, dependencies, dep_order, dr_pc,
                   dr_layers, cycle, sorted_steps, evars, tvars, gvars, svars, cvars, xvars>>

\* _find_cycle(): one run of the `for dep in dependencies` loop from `current`
\* (the last entry of cyc) for the cycle sought from start = cyc[1]:
\* the first entry that is start ends the search, an entry already in cyc is
\* skipped, any other entry becomes current. With no such entry the for loop
\* ends and `while True` runs it again from the same current.
FindCycleFor(cyc, ord) ==
    LET hits == {i \in DOMAIN ord : ord[i] = cyc[1] \/ ord[i] \notin Range(cyc)}
    IN IF hits = {} THEN [kind |-> "again", cycle |-> cyc]
       ELSE LET dep == ord[CHOOSE i \in hits : \A j \in hits : i <= j]
            IN IF dep = cyc[1]
               THEN [kind |-> "return", cycle |-> Append(cyc, dep)]
               ELSE [kind |-> "advance", cycle |-> Append(cyc, dep)]

\* _find_cycle(): `while True` is entered (again).
FindCycleWhile ==
    /\ dr_pc = "find_cycle"
    /\ dr_pc' = "find_cycle_for"
    /\ UNCHANGED <<step_depends_on, step_references, step_steps, dr_steps, nodes, dependencies, dep_order,
                   dr_layers, visited, temp_visited, call_stack, cycle, sorted_steps,
                   evars, tvars, gvars, svars, cvars, xvars>>

\* _find_cycle(): the for loop runs; on return, visit raises
\* ValueError("Circular dependency detected: " + " -> ".join(cycle)),
\* which leaves validate() and sort().
FindCycleLoop ==
    /\ dr_pc = "find_cycle_for"
    /\ LET r == FindCycleFor(cycle, dep_order[cycle[Len(cycle)]])
       IN /\ cycle' = r.cycle
          /\ dr_pc' = IF r.kind = "return" THEN "raised" ELSE "find_cycle"
    /\ UNCHANGED <<step_depends_on, step_references, step_steps, dr_steps, nodes, dependencies, dep_order,
                   dr_layers, visited, temp_visited, call_stack, sorted_steps, evars, tvars, gvars, svars, cvars, xvars>>

RECURSIVE SortLevels(_, _, _)
\* sort(): the `while in_degree` loop; in_degree maps the names in remaining.
SortLevels(nd, in_degree, levels) ==
    LET level == {name \in DOMAIN in_degree : in_degree[name] = 0}
    IN IF DOMAIN in_degree = {} \/ level = {} THEN levels
       ELSE SortLevels(nd,
                       [name \in DOMAIN in_degree \ level |->
                           in_degree[name] -
                             Cardinality({l \in level : name \in nd[l].dependents})],
                       Append(levels, level))

\* sort() on the node table nd, after validate() returned.
Sort(nd) ==
    SortLevels(nd, [name \in DOMAIN nd |-> Cardinality(nd[name].dependencies)], <<>>)

\* validate() returned (every node is visited); sort() builds the levels.
SortReturns ==
    /\ dr_pc = "validate"
    /\ call_stack = <<>>
    /\ Added \ visited = {}
    /\ sorted_steps' = Sort(nodes)
    /\ dr_pc' = "sorted"
    /\ UNCHANGED <<step_depends_on, step_references, step_steps, dr_steps, nodes, dependencies, dep_order,
                   dr_layers, visited, temp_visited, call_stack, cycle, evars, tvars, gvars, svars, cvars, xvars>>

IdleResolver ==
    /\ step_depends_on = <<>>
    /\ step_references = <<>>
    /\ step_steps = <<>>
    /\ dr_steps = {}
    /\ nodes = <<>>
    /\ dependencies = <<>>
    /\ dep_order = <<>>
    /\ dr_pc = "idle"
    /\ dr_layers = [ok |-> FALSE, layers |-> <<>>]
    /\ visited = {}
    /\ temp_visited = {}
    /\ call_stack = <<>>
    /\ cycle = <<>>
    /\ sorted_steps = <<>>

\* ====================================================================
\* Part IV  Variable resolution
\*          bioinfo_flow/parser/resolvers/variable_resolver.py (VariableResolver)
\* ====================================================================

\* Number of variables the lookup context can hold.
NumVars == 11
\* Largest number of pieces an argument of resolve_string is built from.
MaxPieces == 2

\* Strings are sequences of characters: "$", "{", "}", "t" (any other character
\* of text) and, for variable i, ToString(i): the text of its path
\* (env.<name> for an even i, inputs.<name> for an odd i).
VarPath(i) == ToString(i)
Reference(i) == <<"$", "{", VarPath(i), "}">>

\* str(None) never occurs in a string: prev_value = None.
NoValue == <<"None">>
\* A variable the context does not hold.
NotFound == <<"KeyError">>

\* VAR_PATTERN = \${([^}]+)} tried at index i of str: the index of the closing
\* brace of the match, 0 when there is no match at i.
MatchEnd(str, i) ==
    IF /\ i + 2 <= Len(str)
       /\ str[i] = "$"
       /\ str[i + 1] = "{"
       /\ str[i + 2] # "}"
       /\ \E j \in (i + 3)..Len(str) : str[j] = "}"
    THEN CHOOSE j \in (i + 3)..Len(str) :
            str[j] = "}" /\ \A k \in (i + 3)..(j - 1) : str[k] # "}"
    ELSE 0

\* VAR_PATTERN.search(str)
HasVariable_Never(str) == FALSE

HasVariable(str) == \E i \in DOMAIN str : MatchEnd(str, i) # 0

\* replace(match) on the text of group 1 against the lookup table: only the
\* path of a variable the table resolves yields a value; any other text
\* (unknown prefix, unknown key) raises ValueError.
Replace(group, table) ==
    IF Len(group) = 1 /\ \E i \in DOMAIN table : VarPath(i) = group[1]
    THEN table[CHOOSE i \in DOMAIN table : VarPath(i) = group[1]]
    ELSE [ok |-> FALSE, value |-> <<>>]

RECURSIVE Substitute(_, _, _)
\* pattern.sub(replace, str) from index p on: leftmost matches, not overlapping,
\* each replaced by what replace returns; an exception of replace ends the call.
Substitute(str, p, table) ==
    IF p > Len(str) THEN [ok |-> TRUE, value |-> <<>>]
    ELSE LET e == MatchEnd(str, p)
         IN IF e = 0
            THEN LET rest == Substitute(str, p + 1, table)
                 IN [ok |-> rest.ok, value |-> <<str[p]>> \o rest.value]
            ELSE LET r == Replace(SubSeq(str, p + 2, e - 1), table)
                 IN IF ~r.ok THEN r
                    ELSE LET rest == Substitute(str, e + 1, table)
                         IN [ok |-> rest.ok, value |-> r.value \o rest.value]

\* max_iterations = 10  # Prevent infinite loops
max_iterations_Nine == 10 - 1

max_iterations == 10

\* What replace() of resolve_string finds for each variable: self.context for
\* env/params/resources/global, _resolve_step_io for inputs/outputs when a step
\* is given.
LookupTable(context, step) ==
    [i \in DOMAIN context |->
        IF context[i] = NotFound \/ (i % 2 = 1 /\ ~step)
        THEN [ok |-> FALSE, value |-> <<>>]
        ELSE [ok |-> TRUE, value |-> context[i]]]

RECURSIVE ResolveLoop(_, _, _, _)
\* The for loop and the final search of resolve_string, from the n-th pass on.
ResolveLoop(prev, cur, n, table) ==
    IF n = max_iterations \/ prev = cur
    THEN [ok |-> ~HasVariable(cur), value |-> cur]
    ELSE LET r == Substitute(cur, 1, table)
         IN IF ~r.ok THEN r ELSE ResolveLoop(cur, r.value, n + 1, table)

\* resolve_string(value, step)
ResolveString(value, table) == ResolveLoop(NoValue, value, 0, table)

\* --------------------------------------------------------------------
\* replace(match): the callback resolve_string hands to VAR_PATTERN.sub,
\* with _resolve_step_reference, _get_nested_value and _resolve_step_io
\* --------------------------------------------------------------------

\* Largest number of segments of a variable path.
MaxSegments == 5

\* The segments a path is made of. The workflow has the single step `step1`
\* with no input and the single output `out`; workflow.env is {'out': 'text'}.
Segments == {"steps", "step1", "outputs", "out", "env"}

\* var_path.split('.') for the paths of at most n segments.
Paths(n) == UNION {[1..k -> Segments] : k \in 1..n}

\* IODefinition.value: Optional[str] ("None" stands for None).
OutputValues == {"None", "", "out.txt"}

\* Outcome of a call: a returned string, or the message of the error raised.
Returns(v) == [ok |-> TRUE, value |-> v]
Raises(msg) == [ok |-> FALSE, value |-> msg]

\* `output.value or ''` / `io_item.value or ''`
ValueOrEmpty(v) == IF v = "None" THEN "" ELSE v

\* _resolve_step_reference(parts) reads three segments and accepts any
\* number of further ones.
ResolveStepReference(ps, v) ==
    IF Len(ps) < 3 THEN Raises("Invalid step reference format")
    ELSE IF ps[1] # "step1" THEN Raises("Step not found")
    ELSE IF ps[2] # "outputs" THEN Raises("Only step outputs can be referenced")
    ELSE IF ps[3] # "out" THEN Raises("Output not found in step")
    ELSE Returns(ValueOrEmpty(v))

\* str(_get_nested_value(self.context['env'], parts)): no segment returns the
\* dict itself, a segment under the string value is refused.
GetNestedValue(ps) ==
    IF Len(ps) = 0 THEN Returns("{'out': 'text'}")
    ELSE IF ps[1] # "out" THEN Raises("Key not found")
    ELSE IF Len(ps) = 1 THEN Returns("text")
    ELSE Raises("Cannot access in non-dictionary value")

\* _resolve_step_io(step, parts) for step1 (parts[0] is inputs or outputs).
ResolveStepIo(ps, v) ==
    IF Len(ps) # 2 THEN Raises("Invalid input/output reference format")
    ELSE LET io_list == IF ps[1] = "inputs" THEN {} ELSE {"out"}
         IN IF ps[2] \notin io_list THEN Raises("not found in step")
            ELSE Returns(ValueOrEmpty(v))

\* replace(match): the branch is chosen by parts[0]; a KeyError or ValueError
\* is raised again as ValueError("Failed to resolve variable ...").
ReplaceMatch(ps, step, v) ==
    IF ps[1] = "steps" THEN ResolveStepReference(Tail(ps), v)
    ELSE IF ps[1] = "env" THEN GetNestedValue(Tail(ps))
    ELSE IF step /\ ps[1] \in {"inputs", "outputs"} THEN ResolveStepIo(ps, v)
    ELSE Raises("Unknown variable type")

NotReplaced == Raises("")

InitReplace ==
    /\ parts \in Paths(MaxSegments)
    /\ rp_step \in BOOLEAN
    /\ output_value \in OutputValues
    /\ replaced = NotReplaced
    /\ rp_pc = "replace"

\* replace(match) returns the replacement text.
ReplaceReturns ==
    /\ rp_pc = "replace"
    /\ ReplaceMatch(parts, rp_step, output_value).ok
    /\ replaced' = ReplaceMatch(parts, rp_step, output_value)
    /\ rp_pc' = "returned"
    /\ UNCHANGED <<parts, rp_step, output_value, rs_context, rs_step, rs_value, prev_value,
                   current_value, iterations, rs_pc, evars, tvars, gvars, dvars, cvars, xvars>>

\* replace(match) raises ValueError, which ends resolve_string.
ReplaceRaises ==
    /\ rp_pc = "replace"
    /\ ~ReplaceMatch(parts, rp_step, output_value).ok
    /\ replaced' = ReplaceMatch(parts, rp_step, output_value)
    /\ rp_pc' = "raised"
    /\ UNCHANGED <<parts, rp_step, output_value, rs_context, rs_step, rs_value, prev_value,
                   current_value, iterations, rs_pc, evars, tvars, gvars, dvars, cvars, xvars>>

IdleReplace ==
    /\ parts = <<>>
    /\ rp_step = FALSE
    /\ output_value = "None"
    /\ replaced = NotReplaced
    /\ rp_pc = "idle"

\* --------------------------------------------------------------------
\* resolve_string over whole strings
\* --------------------------------------------------------------------

RECURSIVE Concatenations(_, _)
\* The strings made of at most n of the given pieces.
Concatenations(pieces, n) ==
    IF n = 0 THEN {<<>>}
    ELSE LET shorter == Concatenations(pieces, n - 1)
         IN shorter \cup {x \o y : x \in shorter, y \in pieces}

\* Arguments of resolve_string.
ArgumentPieces == {<<"t">>, <<"$">>, <<"{">>, <<"}">>, Reference(1), Reference(2)}

\* Contexts: variable i < d holds a reference to variable i + 1, variable d holds
\* the last value of the chain, the variables above d are not defined.
LastValues(d) ==
    {<<>>, <<"t">>, <<"$">>, <<"$", "{">>, <<"{", "t", "}">>, Reference(1), Reference(d + 1)}
        \cup (IF d > 0 THEN {Reference(d)} ELSE {})

ChainContext(d, last) ==
    [i \in 1..NumVars |-> IF i < d THEN Reference(i + 1) ELSE IF i = d THEN last ELSE NotFound]

InitVariables ==
    /\ \E d \in 0..NumVars : \E last \in LastValues(d) : rs_context = ChainContext(d, last)
    /\ rs_step \in BOOLEAN
    /\ rs_value \in Concatenations(ArgumentPieces, MaxPieces)
    /\ prev_value = NoValue
    /\ current_value = rs_value
    /\ iterations = 0
    /\ rs_pc = "loop"
    /\ IdleReplace

\* resolve_string: one pass of the for loop that does not break.
ResolvePass ==
    /\ rs_pc = "loop"
    /\ iterations < max_iterations
    /\ prev_value # current_value
    /\ LET r == Substitute(current_value, 1, LookupTable(rs_context, rs_step))
       IN /\ prev_value' = current_value
          /\ iterations' = iterations + 1
          /\ IF r.ok
             THEN current_value' = r.value /\ UNCHANGED rs_pc
             ELSE rs_pc' = "raised" /\ UNCHANGED current_value
    /\ UNCHANGED <<rs_context, rs_step, rs_value, pvars, evars, tvars, gvars, dvars, cvars, xvars>>

\* resolve_string: the loop is left (break, or range(max_iterations) is used up);
\* a value VAR_PATTERN still matches raises ValueError, any other is returned.
ResolveLoopEnds ==
    /\ rs_pc = "loop"
    /\ iterations = max_iterations \/ prev_value = current_value
    /\ rs_pc' = IF HasVariable(current_value) THEN "raised" ELSE "returned"
    /\ UNCHANGED <<rs_context, rs_step, rs_value, prev_value, current_value, iterations,
                   pvars, evars, tvars, gvars, dvars, cvars, xvars>>

IdleResolveString ==
    /\ rs_context = <<>>
    /\ rs_step = FALSE
    /\ rs_value = <<>>
    /\ prev_value = NoValue
    /\ current_value = <<>>
    /\ iterations = 0
    /\ rs_pc = "idle"

IdleVariables == IdleResolveString /\ IdleReplace

\* --------------------------------------------------------------------
\* bioflow/parser/resolvers/variable.py (VariableResolver), on a configuration
\* with env REF and one step with the input `ref` and a command.
\* Variable 1 is the path env.REF, variable 2 the path inputs.ref.
\* --------------------------------------------------------------------

\* _get_value_from_path for the two paths while stack is self.step_stack:
\* env.REF is navigated in self.config; inputs.ref is read from the `inputs`
\* of the dict on top of the stack, as the configuration holds it.
ValueFromPath(cfg, stack) ==
    <<IF cfg.env = NotFound
      THEN [ok |-> FALSE, value |-> <<>>]
      ELSE [ok |-> TRUE, value |-> cfg.env],
      IF stack # <<>> /\ stack[Len(stack)] = "step"
      THEN [ok |-> TRUE, value |-> cfg.input]
      ELSE [ok |-> FALSE, value |-> <<>>]>>

\* The configurations handed to VariableResolver.
Configs ==
    [env : {NotFound, <<"t">>, <<"t", "t">>},
     input : Concatenations({<<"t">>, <<"$">>, Reference(1), Reference(2)}, MaxPieces),
     command : Concatenations({<<"t">>, Reference(1), Reference(2)}, MaxPieces),
     input_has_type : BOOLEAN]

InitConfig ==
    /\ config \in Configs
    /\ step_stack = <<>>
    /\ resolved = [input |-> NoValue, command |-> NoValue]
    /\ cfg_pc = "resolve"

\* resolve_dict(step): the step dict has a `type`, it is pushed on the stack.
ResolveStepBegins ==
    /\ cfg_pc = "resolve"
    /\ step_stack' = Append(step_stack, "step")
    /\ cfg_pc' = "step"
    /\ UNCHANGED <<config, resolved, evars, tvars, gvars, dvars, svars, xvars>>

\* resolve_dict(step) reaches the key `inputs`: resolve_list, resolve_dict on the
\* input (pushed on the stack when it has a `type`), resolve_string on its value.
ResolveInputValue ==
    /\ cfg_pc = "step"
    /\ resolved.input = NoValue
    /\ LET stack == IF config.input_has_type THEN Append(step_stack, "input") ELSE step_stack
           r == Substitute(config.input, 1, ValueFromPath(config, stack))
       IN IF r.ok
          THEN /\ resolved' = [resolved EXCEPT !.input = r.value]
               /\ UNCHANGED <<cfg_pc, step_stack>>
          ELSE /\ cfg_pc' = "raised"
               /\ step_stack' = stack
               /\ UNCHANGED resolved
    /\ UNCHANGED <<config, evars, tvars, gvars, dvars, svars, xvars>>

\* resolve_dict(step) reaches the key `command`: resolve_string on it.
ResolveCommand ==
    /\ cfg_pc = "step"
    /\ resolved.command = NoValue
    /\ LET r == Substitute(config.command, 1, ValueFromPath(config, step_stack))
       IN IF r.ok
          THEN /\ resolved' = [resolved EXCEPT !.command = r.value]
               /\ UNCHANGED cfg_pc
          ELSE /\ cfg_pc' = "raised"
               /\ UNCHANGED resolved
    /\ UNCHANGED <<config, step_stack, evars, tvars, gvars, dvars, svars, xvars>>

\* resolve_dict(step): every key is done, the step is popped from the stack.
ResolveStepEnds ==
    /\ cfg_pc = "step"
    /\ resolved.input # NoValue
    /\ resolved.command # NoValue
    /\ step_stack' = SubSeq(step_stack, 1, Len(step_stack) - 1)
    /\ cfg_pc' = "resolved"
    /\ UNCHANGED <<config, resolved, evars, tvars, gvars, dvars, svars, xvars>>

IdleConfig ==
    /\ config = <<>>
    /\ step_stack = <<>>
    /\ resolved = [input |-> NoValue, command |-> NoValue]
    /\ cfg_pc = "idle"

\* ====================================================================
\* Part V  Executors of the asyncio engine
\*         bioflow/engine/executors/command.py (CommandExecutor.execute)
\*         bioflow/engine/executors/container.py (ContainerExecutor.execute)
\* ====================================================================

\* Optional values: <<>> is None, <<x>> is x.
None == <<>>
Some(x) == <<x>>

\* StepExecutionState(step, status=RUNNING, start_time=now())
RunningState ==
    [status |-> "RUNNING", end_time |-> "None", exit_code |-> None, error_message |-> "None"]

\* What the step's process leaves when it exits: process.returncode and the
\* bytes of its two pipes (empty, UTF-8 text, or bytes that are not UTF-8).
ReturnCodes == {None, Some(0), Some(1), Some(2), Some(-9)}
PipeContents == {"empty", "text", "not_utf8"}

\* bytes.decode() raises UnicodeDecodeError
DecodeRaises(c) == c.stdout = "not_utf8" \/ c.stderr = "not_utf8"

\* _run_command / _run_container after communicate():
\* returncode = process.returncode if process.returncode is not None else -1
ExitCode(c) == IF c.returncode = None THEN -1 ELSE c.returncode[1]

\* status = COMPLETED if exit_code == 0 else FAILED
StatusOf(exit_code) == IF exit_code = 0 THEN "COMPLETED" ELSE "FAILED"

\* error_message = stderr or stdout or f"... failed with exit code {exit_code}"
\* (an empty pipe is returned as None by _run_command / _run_container)
ErrorMessage(c) ==
    IF c.stderr = "text" THEN "stderr"
    ELSE IF c.stdout = "text" THEN "stdout"
    ELSE "failed with exit code"

\* The except clause of execute(): _update_state(FAILED, end_time, str(e)).
FailedState(st, e) ==
    [st EXCEPT !.status = "FAILED", !.end_time = "set", !.error_message = e]

\* The state execute() returns for the exited process c.
StateAfterExit(st, c) ==
    IF DecodeRaises(c) THEN FailedState(st, "UnicodeDecodeError")
    ELSE [st EXCEPT !.status = StatusOf(ExitCode(c)),
                    !.end_time = "set",
                    !.exit_code = Some(ExitCode(c)),
                    !.error_message =
                        IF StatusOf(ExitCode(c)) = "FAILED" THEN ErrorMessage(c) ELSE "None"]

NoChild == [returncode |-> None, stdout |-> "none", stderr |-> "none"]

\* Steps: StepType, command (None, empty or a shell command) and
\* container (None, or its type as written in the workflow).
Steps ==
    [type : {"SINGLE", "PARALLEL_GROUP", "SEQUENTIAL_GROUP"},
     command : {None, Some(""), Some("echo hello")},
     container : {None, Some("docker"), Some("Docker"), Some("singularity")}]

\* str.lower() on the container types above
Lower(s) == IF s = "Docker" THEN "docker" ELSE s

\* CommandExecutor.can_execute
CommandCanExecute(step) ==
    /\ step.type = "SINGLE"
    /\ step.command # None
    /\ step.container = None

\* ContainerExecutor.can_execute
ContainerCanExecute(step) ==
    /\ step.type = "SINGLE"
    /\ step.container # None
    /\ Lower(step.container[1]) = "docker"

\* executor.can_execute(step) of the executor class e
CanExecute(e, step) ==
    IF e = "CommandExecutor" THEN CommandCanExecute(step) ELSE ContainerCanExecute(step)

\* Exit codes of `docker image inspect` and `docker pull`.
DockerCodes == {0, 1}

\* _ensure_image: `if proc.returncode != 0` (the image is pulled)
PullNeeded_Always(returncode) == TRUE

PullNeeded(returncode) == returncode # 0

\* str(e) of the ContainerError _ensure_image raises: its handler wraps the
\* error of the pull ("Failed to pull image <image>: <stderr>", docker's
\* messages being UTF-8 text) or the exception of create_subprocess_exec.
PullErrorMessage == "Error ensuring image: Failed to pull image: stderr"
EnsureImageErrorMessage == "Error ensuring image: OSError"

InitExecutor ==
    /\ executor \in {"CommandExecutor", "ContainerExecutor"}
    /\ ex_step \in Steps
    /\ accepts = None
    /\ docker_calls = <<>>
    /\ ex_pc = "can_execute"
    /\ child = NoChild
    /\ step_state = [status |-> "PENDING", end_time |-> "None", exit_code |-> None,
                     error_message |-> "None"]

\* executor.can_execute(step), as _find_executor and the callers of execute() ask.
CanExecuteCall ==
    /\ ex_pc = "can_execute"
    /\ accepts' = Some(CanExecute(executor, ex_step))
    /\ ex_pc' = "execute"
    /\ UNCHANGED <<executor, ex_step, docker_calls, child, step_state, evars, tvars, gvars, dvars,
                   svars, cvars>>

\* execute() up to the try block: ContainerExecutor raises ContainerError for a
\* step without container; os.makedirs may raise; otherwise the RUNNING state
\* is created.
ExecuteBegins ==
    /\ ex_pc = "execute"
    /\ IF executor = "ContainerExecutor" /\ ex_step.container = None
       THEN ex_pc' = "raised" /\ UNCHANGED step_state
       ELSE \/ ex_pc' = "raised" /\ UNCHANGED step_state
            \/ /\ step_state' = RunningState
               /\ ex_pc' = IF executor = "ContainerExecutor" THEN "ensure_image" ELSE "spawn"
    /\ UNCHANGED <<executor, ex_step, accepts, docker_calls, child, evars, tvars, gvars, dvars, svars, cvars>>

\* ContainerExecutor._ensure_image: `docker image inspect` runs and exits (or
\* create_subprocess_exec raises, and ContainerError reaches the except clause
\* of execute()).
EnsureImage ==
    /\ ex_pc = "ensure_image"
    /\ \/ \E rc \in DockerCodes :
             /\ docker_calls' = Append(docker_calls, [call |-> "inspect", returncode |-> Some(rc)])
             /\ ex_pc' = IF PullNeeded(rc) THEN "pull" ELSE "spawn"
             /\ UNCHANGED step_state
       \/ /\ docker_calls' = Append(docker_calls, [call |-> "inspect", returncode |-> None])
          /\ step_state' = FailedState(step_state, EnsureImageErrorMessage)
          /\ ex_pc' = "returned"
    /\ UNCHANGED <<executor, ex_step, accepts, child, evars, tvars, gvars, dvars, svars, cvars>>

\* ContainerExecutor._ensure_image: `docker pull` runs and exits; a non-zero exit
\* code raises ContainerError into the except clause of execute().
PullImage ==
    /\ ex_pc = "pull"
    /\ \/ \E rc \in DockerCodes :
             /\ docker_calls' = Append(docker_calls, [call |-> "pull", returncode |-> Some(rc)])
             /\ IF rc # 0
                THEN /\ step_state' = FailedState(step_state, PullErrorMessage)
                     /\ ex_pc' = "returned"
                ELSE /\ ex_pc' = "spawn"
                     /\ UNCHANGED step_state
       \/ /\ docker_calls' = Append(docker_calls, [call |-> "pull", returncode |-> None])
          /\ step_state' = FailedState(step_state, EnsureImageErrorMessage)
          /\ ex_pc' = "returned"
    /\ UNCHANGED <<executor, ex_step, accepts, child, evars, tvars, gvars, dvars, svars, cvars>>

\* _run_command / _run_container: create_subprocess_* starts the process (for a
\* container: `docker run --rm ...`), or raises into the except clause of execute().
SpawnChild ==
    /\ ex_pc = "spawn"
    /\ docker_calls' = IF executor = "ContainerExecutor"
                       THEN Append(docker_calls, [call |-> "run", returncode |-> None])
                       ELSE docker_calls
    /\ \/ ex_pc' = "communicate" /\ UNCHANGED step_state
       \/ /\ step_state' = FailedState(step_state, "spawn error")
          /\ ex_pc' = "returned"
    /\ UNCHANGED <<executor, ex_step, accepts, child, evars, tvars, gvars, dvars, svars, cvars>>

\* await process.communicate(): the process exits.
ChildExits ==
    /\ ex_pc = "communicate"
    /\ child' \in [returncode : ReturnCodes, stdout : PipeContents, stderr : PipeContents]
    /\ ex_pc' = "exited"
    /\ UNCHANGED <<executor, ex_step, accepts, docker_calls, step_state, evars, tvars, gvars, dvars,
                   svars, cvars>>

\* The pipes are decoded, the state is updated and execute() returns it.
ExecuteReturns ==
    /\ ex_pc = "exited"
    /\ step_state' = StateAfterExit(step_state, child)
    /\ ex_pc' = "returned"
    /\ UNCHANGED <<executor, ex_step, accepts, docker_calls, child, evars, tvars, gvars, dvars, svars, cvars>>

IdleExecutor ==
    /\ executor = "none"
    /\ ex_step = [type |-> "SINGLE", command |-> None, container |-> None]
    /\ accepts = None
    /\ docker_calls = <<>>
    /\ ex_pc = "idle"
    /\ child = NoChild
    /\ step_state = RunningState

\* ====================================================================
\* Part VI  bioinfo_flow DependencyResolver
\*          bioinfo_flow/parser/resolvers/dependency_resolver.py
\* ====================================================================

\* Workflows: steps 1..n in the order of workflow.workflow.steps; depends_on
\* entries and ${steps.X.outputs.*} tokens name any of StepNames (a name above
\* n is not a step, the step's own name is a reference to its own output).
FlowInputs(n) ==
    {io \in (SUBSET ((1..n) \X StepNames)) \X (SUBSET ((1..n) \X StepNames)) :
        Cardinality(io[1]) + Cardinality(io[2]) <= MaxEdges}

InitFlow ==
    /\ \E n \in 1..NumSteps : \E io \in FlowInputs(n) :
          /\ flow_steps = 1..n
          /\ flow_depends_on = [s \in 1..n |-> {d \in StepNames : <<s, d>> \in io[1]}]
          /\ flow_references = [s \in 1..n |-> {d \in StepNames : <<s, d>> \in io[2]}]
    /\ graph = [s \in StepNames |-> {}]
    /\ flow_in_degree = [s \in StepNames |-> 0]
    /\ queue = <<>>
    /\ execution_order = <<>>
    /\ flow_cycle = <<>>
    /\ flow_pc = "init"

\* _add_deps_from_string on the strings of a step: every X found by
\* re.findall(r'\${steps\.([^.]+)\.outputs\.[^}]+}', value) is added to
\* graph[step_name].
AddDepsFromString(deps, refs) == deps \cup refs

\* __init__: _build_dependency_graph adds the depends_on entries, then the
\* implicit dependencies of every step.
BuildDependencyGraph ==
    /\ flow_pc = "init"
    /\ graph' = [s \in StepNames |->
                   IF s \in flow_steps
                   THEN AddDepsFromString(flow_depends_on[s], flow_references[s])
                   ELSE {}]
    /\ flow_pc' = "built"
    /\ UNCHANGED <<flow_steps, flow_depends_on, flow_references, flow_in_degree, queue,
                   execution_order, flow_cycle, evars, tvars, dvars, svars, cvars, xvars>>

\* get_execution_order(): in_degree counts, for every name, the steps whose
\* graph entry holds it; the queue starts with the steps that are in no entry,
\* in the order of workflow.workflow.steps.
GetExecutionOrderBegins ==
    /\ flow_pc = "built"
    /\ flow_in_degree' = [d \in StepNames |-> Cardinality({s \in StepNames : d \in graph[s]})]
    /\ queue' = SelectSeq([i \in 1..Cardinality(flow_steps) |-> i],
                          LAMBDA s : \A u \in StepNames : s \notin graph[u])
    /\ execution_order' = <<>>
    /\ flow_pc' = "while"
    /\ UNCHANGED <<flow_steps, flow_depends_on, flow_references, graph, flow_cycle,
                   evars, tvars, dvars, svars, cvars, xvars>>

\* One pass of `while queue`: current = queue.pop(0); step_map[current] raises
\* KeyError for a name that is not a step; the names in graph[current] lose one
\* from their in_degree and those that reach 0 are queued, in the iteration
\* order of the set.
WhileQueue ==
    /\ flow_pc = "while"
    /\ queue # <<>>
    /\ LET current == Head(queue)
       IN IF current \notin flow_steps
          THEN /\ flow_pc' = "KeyError"
               /\ queue' = Tail(queue)
               /\ UNCHANGED <<flow_in_degree, execution_order>>
          ELSE /\ execution_order' = Append(execution_order, current)
               /\ flow_in_degree' = [d \in StepNames |->
                                  IF d \in graph[current] THEN flow_in_degree[d] - 1
                                  ELSE flow_in_degree[d]]
               /\ \E ord \in Orders({d \in graph[current] : flow_in_degree[d] = 1}) :
                     queue' = Tail(queue) \o ord
               /\ UNCHANGED flow_pc
    /\ UNCHANGED <<flow_steps, flow_depends_on, flow_references, graph, flow_cycle,
                   evars, tvars, dvars, svars, cvars, xvars>>

\* reversed(execution_order)
Reversed(seq) == [i \in 1..Len(seq) |-> seq[Len(seq) + 1 - i]]

RECURSIVE Dfs(_, _, _, _)
RECURSIVE DfsNeighbors(_, _, _, _, _)
\* dfs(node, path, visited) of _find_cycle, ord[n] being the order in which
\* graph[n] iterates: the cycle it returns, and path and visited as it leaves
\* them.
Dfs(node, path, seen, ord) ==
    IF node \in Range(path)
    THEN LET idx == CHOOSE i \in DOMAIN path : path[i] = node
         IN [cycle |-> SubSeq(path, idx, Len(path)), path |-> path, visited |-> seen]
    ELSE IF node \in seen
    THEN [cycle |-> <<>>, path |-> path, visited |-> seen]
    ELSE DfsNeighbors(node, 1, Append(path, node), seen \cup {node}, ord)

\* `for neighbor in self.graph[node]` from its i-th entry on, then path.pop().
DfsNeighbors(node, i, path, seen, ord) ==
    IF i > Len(ord[node])
    THEN [cycle |-> <<>>, path |-> SubSeq(path, 1, Len(path) - 1), visited |-> seen]
    ELSE LET r == Dfs(ord[node][i], path, seen, ord)
         IN IF r.cycle # <<>> THEN r
            ELSE DfsNeighbors(node, i + 1, r.path, r.visited, ord)

RECURSIVE FindCycle(_, _)
\* _find_cycle(nodes), nodes iterating in the order given: the first dfs that
\* returns a cycle ends the search.
FindCycle(nodes_order, ord) ==
    IF nodes_order = <<>> THEN <<>>
    ELSE LET r == Dfs(Head(nodes_order), <<>>, {}, ord)
         IN IF r.cycle # <<>> THEN Append(r.cycle, r.cycle[1])
            ELSE FindCycle(Tail(nodes_order), ord)

\* The orders in which the sets of the graph can iterate.
GraphOrders ==
    {f \in [StepNames -> UNION {Orders(graph[n]) : n \in StepNames}] :
        \A n \in StepNames : f[n] \in Orders(graph[n])}

\* The queue is empty: when a step is missing from execution_order,
\* CircularDependencyError(_find_cycle(remaining)) is raised, otherwise the
\* reversed order is returned.
GetExecutionOrderEnds ==
    /\ flow_pc = "while"
    /\ queue = <<>>
    /\ IF Len(execution_order) # Cardinality(flow_steps)
       THEN /\ \E nodes_order \in Orders(flow_steps \ Range(execution_order)) :
                 \E ord \in GraphOrders : flow_cycle' = FindCycle(nodes_order, ord)
            /\ flow_pc' = "CircularDependencyError"
            /\ UNCHANGED execution_order
       ELSE /\ flow_pc' = "returned"
            /\ execution_order' = Reversed(execution_order)
            /\ UNCHANGED flow_cycle
    /\ UNCHANGED <<flow_steps, flow_depends_on, flow_references, graph, flow_in_degree, queue,
                   evars, tvars, dvars, svars, cvars, xvars>>

IdleFlow ==
    /\ flow_steps = {}
    /\ flow_depends_on = <<>>
    /\ flow_references = <<>>
    /\ graph = <<>>
    /\ flow_in_degree = <<>>
    /\ queue = <<>>
    /\ execution_order = <<>>
    /\ flow_cycle = <<>>
    /\ flow_pc = "idle"

\* ---- states of the engine that is not under test in a specification
IdleEngine ==
    /\ wf_steps = {}
    /\ depends_on = <<>>
    /\ pc = "idle"
    /\ execution_layers = <<>>
    /\ layer_idx = 0
    /\ tasks = <<>>
    /\ result = NewResult

IdleScheduler ==
    /\ after = <<>>
    /\ resources = <<>>
    /\ pending = <<>>
    /\ running = {}
    /\ completed = {}
    /\ failed = {}
    /\ status = <<>>
    /\ allocated_cpus = 0
    /\ allocated_memory = 0
    /\ allocated_gpus = 0
    /\ futures = {}
    /\ worker = <<>>
    /\ main_pc = "idle"
    /\ success = "none"
    /\ containers = {}
    /\ alive = {}
    /\ sd_size = 0
    /\ sd_done = {}
    /\ dependents = <<>>
    /\ build_pc = "idle"
    /\ dispatched = <<>>
    /\ sched_call = NoCall

\* ====================================================================
\* Specifications
\* ====================================================================

\* WorkflowEngine.execute on every workflow within the bounds.
Init == InitEngine /\ IdleScheduler /\ IdleResolver /\ IdleVariables /\ IdleConfig /\ IdleExecutor /\ IdleFlow

Next ==
    \/ ExecutePreflightError
    \/ ExecuteStart
    \/ \E s \in StepNames : s \in wf_steps /\ ExecuteStepBegin(s)
    \/ \E s \in StepNames : s \in wf_steps /\ ExecutorReturns(s)
    \/ LayerFails
    \/ LayerSucceeds
    \/ ExecuteCompletes

Spec == Init /\ [][Next]_vars

\* ExecutionEngine.execute with its pool threads.
InitThreaded == InitScheduler /\ IdleEngine /\ IdleResolver /\ IdleVariables /\ IdleConfig /\ IdleExecutor /\ IdleFlow

NextThreaded ==
    \/ MainSubmitsStep
    \/ MainGetsNone
    \/ MainWakes
    \/ MainSpins
    \/ MainReturns
    \/ \E s \in StepNames : WorkerMarksRunning(s)
    \/ \E s \in StepNames : WorkerStartsContainer(s)
    \/ \E s \in StepNames : WorkerTracksContainer(s)
    \/ \E s \in StepNames : WorkerStepExits(s)

SpecThreaded == InitThreaded /\ [][NextThreaded]_vars

\* The main thread and every pool thread keep running, and every step process exits.
FairSpecThreaded ==
    /\ SpecThreaded
    /\ WF_vars(MainSubmitsStep)
    /\ WF_vars(MainGetsNone)
    /\ WF_vars(MainWakes)
    /\ WF_vars(MainSpins)
    /\ WF_vars(MainReturns)
    /\ \A s \in StepNames : WF_vars(WorkerMarksRunning(s))
    /\ \A s \in StepNames : WF_vars(WorkerStartsContainer(s))
    /\ \A s \in StepNames : WF_vars(WorkerTracksContainer(s))
    /\ \A s \in StepNames : WF_vars(WorkerStepExits(s))

\* ExecutionEngine.execute with its pool threads and a SIGINT or SIGTERM that
\* may arrive while execute() is in its loop.
InitShutdown == InitThreaded

NextShutdown ==
    \/ MainSubmitsStep
    \/ MainGetsNone
    \/ MainWakes
    \/ MainSpins
    \/ MainReturns
    \/ \E s \in StepNames : WorkerMarksRunning(s)
    \/ \E s \in StepNames : WorkerStartsContainer(s)
    \/ \E s \in StepNames : WorkerTracksContainer(s)
    \/ \E s \in StepNames : WorkerStepExits(s)
    \/ SignalArrives
    \/ ShutdownStopsContainer
    \/ ShutdownReturns

SpecShutdown == InitShutdown /\ [][NextShutdown]_vars

\* Construction of a TaskScheduler.
InitBuildScheduler ==
    InitBuild /\ IdleEngine /\ IdleResolver /\ IdleVariables /\ IdleConfig /\ IdleExecutor /\ IdleFlow

NextBuildScheduler == BuildStepEntry \/ CheckCycles \/ QueueRoots

SpecBuildScheduler == InitBuildScheduler /\ [][NextBuildScheduler]_vars

\* A constructed TaskScheduler under the calls of any client.
InitSchedulerCalls ==
    InitClient /\ IdleEngine /\ IdleResolver /\ IdleVariables /\ IdleConfig /\ IdleExecutor /\ IdleFlow

NextSchedulerCalls ==
    \/ ClientGetsNextStep
    \/ \E s \in StepNames : ClientMarksRunning(s)
    \/ \E s \in StepNames : ClientMarksCompleted(s)
    \/ \E s \in StepNames : ClientMarksFailed(s)

SpecSchedulerCalls == InitSchedulerCalls /\ [][NextSchedulerCalls]_vars

\* The bioflow resolvers: every step is added, get_execution_layers and sort run.
InitResolvers == InitResolver /\ IdleEngine /\ IdleScheduler /\ IdleVariables /\ IdleConfig /\ IdleExecutor /\ IdleFlow

NextResolvers ==
    \/ AddStep
    \/ GetExecutionLayersCall
    \/ SortCallsValidate
    \/ ValidateVisitsRoot
    \/ VisitNextDependency
    \/ VisitReturns
    \/ FindCycleWhile
    \/ FindCycleLoop
    \/ SortReturns

SpecResolvers == InitResolvers /\ [][NextResolvers]_vars

\* The calling thread keeps running.
FairSpecResolvers == SpecResolvers /\ WF_vars(NextResolvers)

\* bioinfo_flow VariableResolver.resolve_string on every argument and context
\* within the bounds.
InitResolveString == InitVariables /\ IdleEngine /\ IdleScheduler /\ IdleResolver /\ IdleConfig /\ IdleExecutor /\ IdleFlow

NextResolveString == ResolvePass \/ ResolveLoopEnds

SpecResolveString == InitResolveString /\ [][NextResolveString]_vars

\* replace(match) of resolve_string on one reference.
InitReplaceMatch ==
    InitReplace /\ IdleResolveString /\ IdleEngine /\ IdleScheduler /\ IdleResolver /\ IdleConfig /\ IdleExecutor /\ IdleFlow

NextReplaceMatch == ReplaceReturns \/ ReplaceRaises

SpecReplaceMatch == InitReplaceMatch /\ [][NextReplaceMatch]_vars

\* bioflow VariableResolver.resolve on the step of every configuration within
\* the bounds.
InitResolveConfig ==
    InitConfig /\ IdleEngine /\ IdleScheduler /\ IdleResolver /\ IdleVariables /\ IdleExecutor /\ IdleFlow

NextResolveConfig ==
    \/ ResolveStepBegins
    \/ ResolveInputValue
    \/ ResolveCommand
    \/ ResolveStepEnds

SpecResolveConfig == InitResolveConfig /\ [][NextResolveConfig]_vars

\* CommandExecutor.execute and ContainerExecutor.execute on one step.
InitExecute ==
    InitExecutor /\ IdleEngine /\ IdleScheduler /\ IdleResolver /\ IdleVariables /\ IdleConfig /\ IdleFlow

NextExecute ==
    \/ CanExecuteCall
    \/ ExecuteBegins
    \/ EnsureImage
    \/ PullImage
    \/ SpawnChild
    \/ ChildExits
    \/ ExecuteReturns

SpecExecute == InitExecute /\ [][NextExecute]_vars

\* bioinfo_flow DependencyResolver: construction, then get_execution_order.
InitFlowOrder ==
    InitFlow /\ IdleEngine /\ IdleScheduler /\ IdleResolver /\ IdleVariables /\ IdleConfig
    /\ IdleExecutor

NextFlowOrder ==
    \/ BuildDependencyGraph
    \/ GetExecutionOrderBegins
    \/ WhileQueue
    \/ GetExecutionOrderEnds

SpecFlowOrder == InitFlowOrder /\ [][NextFlowOrder]_vars

\* ====================================================================
\* Properties
\* ====================================================================

\* Layer (1-based) of a step of the workflow in execution_layers.
LayerOf(s) == CHOOSE i \in DOMAIN execution_layers : s \in execution_layers[i]

\* The step's task ended FAILED or with an exception.
Bad(s) == IsException(tasks[s]) \/ tasks[s] = "FAILED"

\* C1: once a step of layer L has ended FAILED (or its task raised), no step of
\* a later layer is ever started, and the returned result is FAILED with the
\* message "Step '<name>' failed: ..." naming a failed step of L.
C1_FailureStopsLaterLayers ==
    \A s \in wf_steps :
        Bad(s) =>
            /\ \A t \in wf_steps : LayerOf(t) > LayerOf(s) => tasks[t] = "none"
            /\ pc = "returned" =>
                  /\ result.status = "FAILED"
                  /\ Len(result.error_message) = 4
                  /\ result.error_message[1] = "Step '"
                  /\ result.error_message[3] = "' failed: "
                  /\ result.error_message[2] \in execution_layers[LayerOf(s)]
                  /\ Bad(result.error_message[2])

\* A run returned after a step FAILED in a layer that has a later layer.
C1_Witness ==
    /\ pc = "returned"
    /\ \E s \in wf_steps : tasks[s] = "FAILED" /\ LayerOf(s) < Len(execution_layers)

\* C2: when a step of a later layer has been started, every step of every
\* earlier layer has reached a terminal state (returned or raised).
C2_LayerBarrier ==
    \A t \in wf_steps :
        tasks[t] # "none" =>
            \A s \in wf_steps : LayerOf(s) < LayerOf(t) => tasks[s] \in TaskDone

\* A step of the second layer runs after a first layer of two steps.
C2_Witness ==
    /\ Len(execution_layers) >= 2
    /\ Cardinality(execution_layers[1]) = 2
    /\ \E t \in execution_layers[2] : tasks[t] = "RUNNING"

\* C7: after execute returns, result.status is COMPLETED exactly when every
\* entry of result.step_states is COMPLETED.
C7_CompletedIffEveryEntryCompleted ==
    pc = "returned" =>
        (result.status = "COMPLETED" <=>
            \A k \in DOMAIN result.step_states : result.step_states[k] = "COMPLETED")

C9_EveryStepHasEntry ==
    (pc = "returned" /\ \E s \in wf_steps : Bad(s)) =>
        /\ DOMAIN result.step_states = wf_steps
        /\ \A s \in wf_steps :
              /\ tasks[s] \in TaskReturned => result.step_states[s] = tasks[s]
              /\ tasks[s] = "none" => result.step_states[s] \in {"PENDING", "CANCELLED"}

\* Every depends_on entry names a step of the workflow.
KnownDependencies == \A s \in wf_steps : depends_on[s] \subseteq wf_steps

\* No dependency cycle: the steps can be ranked so that dependencies rank lower.
Acyclic ==
    \E r \in [wf_steps -> 0..NumSteps] :
        \A s \in wf_steps : \A d \in depends_on[s] \cap wf_steps : r[d] < r[s]

RECURSIVE ChainLength(_)
\* Length of the longest chain of dependencies below s (acyclic graphs only).
ChainLength(s) ==
    IF depends_on[s] = {} THEN 0
    ELSE 1 + SetMax({ChainLength(d) : d \in depends_on[s]})

\* C10: for an acyclic workflow with known dependencies get_execution_layers
\* returns a partition of the steps in which layer i (from 0) holds exactly the
\* steps whose longest dependency chain has length i; every dependency lies in
\* a strictly earlier layer.
C10_LayersAreChainLengths ==
    (pc # "start" /\ KnownDependencies /\ Acyclic) =>
        /\ UNION Range(execution_layers) = wf_steps
        /\ \A i, j \in DOMAIN execution_layers :
              i # j => execution_layers[i] \cap execution_layers[j] = {}
        /\ \A i \in DOMAIN execution_layers :
              execution_layers[i] = {s \in wf_steps : ChainLength(s) = i - 1}
        /\ \A s \in wf_steps : \A d \in depends_on[s] : LayerOf(d) < LayerOf(s)

\* Three layers, the last step depending on steps of two different layers.
C10_Witness ==
    /\ Len(execution_layers) = 3
    /\ \E s \in execution_layers[3] :
          /\ depends_on[s] \cap execution_layers[1] # {}
          /\ depends_on[s] \cap execution_layers[2] # {}

\* C3: a step that was handed out by get_next_step or marked running has every
\* step of its `after` list in the completed set, with status completed.
C3_DependenciesCompletedBeforeStart ==
    \A s \in DOMAIN after :
        (worker[s] # "none" \/ s \in running \/ status[s] = "running") =>
            \A d \in after[s] : d \in completed /\ status[d] = "completed"

\* A step with two dependencies is running.
C3_Witness ==
    \E s \in DOMAIN after : Cardinality(after[s]) = 2 /\ status[s] = "running"

\* C4: the allocated CPUs, memory and GPUs never exceed the host's.
C4_AllocationWithinHost ==
    /\ allocated_cpus <= HostCpus
    /\ allocated_memory <= available_memory
    /\ allocated_gpus <= HostGpus

\* C5: when a ready step in the queue fails can_run_step while another step is
\* running, get_next_step has returned without it: the scheduler lock is free,
\* so the running step can complete and release its resources.
C5_BlockedStepIsRequeued ==
    \A s \in Range(pending) :
        (/\ running # {}
         /\ ~Skipped(s)
         /\ AreDependenciesMet(completed, s)
         /\ ~CanRunStep(s)) => LockFree

\* C6: execute eventually returns; once a step that has dependents has failed,
\* it returns False.
C6_ExecuteReturnsAfterFailure ==
    (\E s \in failed : Dependents(s) # {}) ~> (main_pc = "returned" /\ success = "False")

\* Layer (1-based) of a step in what get_execution_layers returned.
DrLayerOf(s) == CHOOSE i \in DOMAIN dr_layers.layers : s \in dr_layers.layers[i]

\* C11: when a step s2 without depends_on names an output of a step s1 (itself
\* without dependencies or references) in its command or inputs, the layers of
\* get_execution_layers place s1 strictly before s2.
C11_ImplicitDependencyOrdersLayers ==
    (dr_pc \in {"sort", "validate", "sorted", "raised"} /\ dr_layers.ok) =>
        \A s1, s2 \in dr_steps :
            (/\ s1 # s2
             /\ s1 \in step_references[s2]
             /\ step_depends_on[s2] = {}
             /\ step_depends_on[s1] = {}
             /\ step_references[s1] = {}) => DrLayerOf(s1) < DrLayerOf(s2)

\* The dependency sets of the nodes contain no cycle.
NodesAcyclic ==
    \E r \in [Added -> 0..NumSteps] :
        \A n \in Added : \A d \in nodes[n].dependencies : r[d] < r[n]

\* The chain of the raised error starts and ends with the same step and follows
\* dependency edges.
WitnessChain ==
    /\ Len(cycle) >= 2
    /\ cycle[1] = cycle[Len(cycle)]
    /\ \A i \in 1..(Len(cycle) - 1) : cycle[i + 1] \in nodes[cycle[i]].dependencies

\* C13: validate terminates on every graph and every iteration order of the
\* dependency sets; it returns normally when the graph is acyclic and raises
\* the error with a witness chain when it has a cycle.
C13_ValidateTerminatesWithWitnessChain ==
    /\ <>(dr_pc \in {"sorted", "raised"})
    /\ [](dr_pc = "sorted" => NodesAcyclic)
    /\ [](dr_pc = "raised" => (~NodesAcyclic /\ WitnessChain))

\* C14: for acyclic steps with known dependencies, added in any order, the
\* levels of sort() partition the added steps and place every step in a
\* strictly later level than each of its dependencies.
C14_SortLevelsAreTopological ==
    dr_pc = "sorted" =>
        /\ \A i, j \in DOMAIN sorted_steps :
              i # j => sorted_steps[i] \cap sorted_steps[j] = {}
        /\ \A s \in Added :
              \E i \in DOMAIN sorted_steps :
                  /\ s \in sorted_steps[i]
                  /\ \A d \in step_depends_on[s] :
                        \E j \in 1..(i - 1) : d \in sorted_steps[j]

\* The message holds the words of text, in a row.
ContainsText(msg, text) ==
    \E i \in 1..(Len(msg) - Len(text) + 1) : SubSeq(msg, i, i + Len(text) - 1) = text

C15_UnknownDependencyIsReported ==
    (pc = "returned" /\ ~KnownDependencies /\ Acyclic) =>
        /\ result.status = "FAILED"
        /\ result.error_message # CycleMessage
        /\ \E s \in wf_steps : \E d \in depends_on[s] \ wf_steps :
              \E i \in DOMAIN result.error_message : result.error_message[i] = d

\* The string holds the two characters "${" in a row.
ContainsOpen(str) == \E i \in 1..(Len(str) - 1) : str[i] = "$" /\ str[i + 1] = "{"

\* C16: a string resolve_string returns contains no "${".
C16_ResultHasNoOpenToken == rs_pc = "returned" => ~ContainsOpen(current_value)

\* The string holds no ${...} token.
IsLiteral(str) == \A i \in DOMAIN str : MatchEnd(str, i) = 0

\* The variables resolve_string can look up.
Resolvable == LookupTable(rs_context, rs_step)

RECURSIVE WellFormedFrom(_, _)
\* From index p on, the string is made of text and of references to variables
\* that can be looked up.
WellFormedFrom(str, p) ==
    IF p > Len(str) THEN TRUE
    ELSE IF str[p] = "t" THEN WellFormedFrom(str, p + 1)
    ELSE /\ MatchEnd(str, p) = p + 3
         /\ Replace(<<str[p + 2]>>, Resolvable).ok
         /\ WellFormedFrom(str, p + 4)

RECURSIVE Closed(_, _)
\* The string and every value its references lead to (through at most fuel
\* levels) are well formed.
Closed(str, fuel) ==
    /\ WellFormedFrom(str, 1)
    /\ fuel > 0 =>
          \A p \in DOMAIN str :
              MatchEnd(str, p) # 0 => Closed(Replace(<<str[p + 2]>>, Resolvable).value, fuel - 1)

RECURSIVE Expand(_, _, _)
\* A well-formed string from index p on, each reference replaced by the
\* expansion of its value, down to the given number of levels.
Expand(str, p, levels) ==
    IF p > Len(str) THEN <<>>
    ELSE IF MatchEnd(str, p) = 0 THEN <<str[p]>> \o Expand(str, p + 1, levels)
    ELSE IF levels = 0 THEN SubSeq(str, p, p + 3) \o Expand(str, p + 4, levels)
    ELSE Expand(Replace(<<str[p + 2]>>, Resolvable).value, 1, levels - 1)
            \o Expand(str, p + 4, levels)

\* C18: resolve_string ends after at most 10 substitution passes (every step of
\* the call is a counted pass or the end of the call, and it is never stuck);
\* a value whose references chain through at most 10 levels is returned fully
\* expanded; a value whose references form a cycle or go deeper raises an
\* error; no returned string holds a ${...} token.
C18_ResolveStringIsBounded ==
    /\ iterations <= 10
    /\ rs_pc = "loop" => ENABLED (ResolvePass \/ ResolveLoopEnds)
    /\ rs_pc = "returned" => IsLiteral(current_value)
    /\ (rs_pc \in {"returned", "raised"} /\ Closed(rs_value, NumVars)) =>
          IF IsLiteral(Expand(rs_value, 1, 10))
          THEN rs_pc = "returned" /\ current_value = Expand(rs_value, 1, 10)
          ELSE rs_pc = "raised"

\* A chain of ten levels was expanded in ten passes.
C18_Witness ==
    /\ rs_pc = "returned"
    /\ iterations = 10
    /\ Closed(rs_value, NumVars)
    /\ ~IsLiteral(Expand(rs_value, 1, 9))

\* C19: a string without ${...} tokens is returned unchanged, and resolving a
\* returned string again returns it unchanged.
C19_ResolveStringIsIdempotent ==
    /\ (rs_pc \in {"returned", "raised"} /\ IsLiteral(rs_value)) =>
          (rs_pc = "returned" /\ current_value = rs_value)
    /\ rs_pc = "returned" =>
          ResolveString(current_value, Resolvable) = [ok |-> TRUE, value |-> current_value]

\* A string with references was resolved to a text that is not empty.
C19_Witness ==
    /\ rs_pc = "returned"
    /\ ~IsLiteral(rs_value)
    /\ current_value # <<>>

\* The values the references of the command stand for: REF, and the resolved
\* value of the input ref.
ResolvedValues ==
    <<[ok |-> TRUE, value |-> config.env], [ok |-> TRUE, value |-> resolved.input]>>

\* C17: in the resolved step, every ${inputs.ref} of the command stands replaced
\* by the resolved value of the input ref (and every ${env.REF} by REF): with
\* REF a literal, the input "${env.REF}" and the command "t${inputs.ref}", the
\* command is "t" followed by REF.
C17_CommandUsesResolvedInput ==
    (cfg_pc = "resolved" /\ IsLiteral(config.env)) =>
        resolved.command = Substitute(config.command, 1, ResolvedValues).value

\* C20: execute never raises for a step process that exits; the state it
\* returns has end_time set, is COMPLETED exactly when the exit code is 0 and
\* FAILED otherwise, records the exit code (-1 when the process has none) and
\* has an error message exactly when it is FAILED.
C20_ExitCodeDecidesState ==
    child # NoChild =>
        /\ ex_pc # "raised"
        /\ ex_pc = "returned" =>
              /\ step_state.end_time = "set"
              /\ step_state.status \in {"COMPLETED", "FAILED"}
              /\ step_state.status = "COMPLETED" <=> child.returncode = Some(0)
              /\ step_state.exit_code =
                    IF child.returncode = None THEN Some(-1) ELSE child.returncode
              /\ step_state.error_message # "None" <=> step_state.status = "FAILED"

ShutdownInvoked == main_pc \in ShutdownPositions \cup {"exited"}

\* C22: once shutdown() has been invoked with steps running, a running step
\* leaves the running state only for cancelled, and its resources are released.
C22_ShutdownCancelsRunningSteps ==
    [][\A s \in DOMAIN status :
          (ShutdownInvoked /\ status[s] = "running" /\ status'[s] # "running") =>
              /\ status'[s] = "cancelled"
              /\ allocated_cpus' = allocated_cpus - resources[s].cpu]_vars

\* C23: after shutdown() has returned (and execute() with it), no container
\* started by a worker is still running.
C23_NoContainerOutlivesShutdown ==
    main_pc \in {"returned", "exited"} => alive = {}

\* Sum of f over the set S.
RECURSIVE SumOver(_, _)
SumOver(S, f) ==
    IF S = {} THEN 0
    ELSE LET x == CHOOSE y \in S : TRUE IN f[x] + SumOver(S \ {x}, f)

\* C27: whenever the scheduler lock is free, the allocated CPUs, memory and GPUs
\* are the sums of the requirements of the steps in the running set.
C27_AllocationMatchesRunning ==
    LockFree =>
        /\ allocated_cpus = SumOver(running, [s \in DOMAIN resources |-> resources[s].cpu])
        /\ allocated_memory =
              SumOver(running, [s \in DOMAIN resources |-> ParseMemory(resources[s].memory)])
        /\ allocated_gpus = SumOver(running, [s \in DOMAIN resources |-> resources[s].gpu])

\* A step that needs a GPU has run and released it, while another step runs.
C27_Witness ==
    /\ LockFree
    /\ \E s \in completed \cup failed : resources[s].gpu > 0
    /\ running # {}

\* The requirement of a step alone exceeds what the host has.
ExceedsHost(s) ==
    \/ resources[s].cpu > HostCpus
    \/ ParseMemory(resources[s].memory) > available_memory
    \/ resources[s].gpu > HostGpus

\* C28: a step whose requirement alone exceeds the host is never handed to a
\* worker, and get_next_step does not loop on a queue that holds it.
C28_OversizeStepDoesNotHang ==
    \A s \in DOMAIN resources :
        ExceedsHost(s) =>
            /\ worker[s] = "none"
            /\ main_pc = "spinning" => s \notin Range(pending)

\* C24: with the outcome of every step fixed, what execute() records for a
\* layer, and whether it stops there, does not depend on the order in which
\* get_execution_layers lists the steps of the layer: two runs return the same
\* status and the same step_states.
C24_ResultIndependentOfLayerOrder ==
    (pc = "gather" /\ GatherDone(execution_layers[layer_idx])) =>
        \A o1, o2 \in Orders(execution_layers[layer_idx]) :
            /\ (FirstBad(o1) = 0) <=> (FirstBad(o2) = 0)
            /\ RecordStates(result.step_states, o1) = RecordStates(result.step_states, o2)

\* C29: execute() stops on a layer, and records a state of one of its steps,
\* only when every step of that layer has been started and its task is done;
\* no task is cancelled.
C29_SiblingsRunToCompletion ==
    /\ (pc \in {"returned", "raised"} /\ layer_idx >= 1) =>
          \A s \in execution_layers[layer_idx] : tasks[s] \in TaskDone
    /\ \A s \in DOMAIN result.step_states :
          \A u \in execution_layers[LayerOf(s)] : tasks[u] \in TaskDone

\* execute() returned FAILED on a layer in which one step failed and a sibling
\* ran on to COMPLETED.
C29_Witness ==
    /\ pc = "returned"
    /\ result.status = "FAILED"
    /\ layer_idx >= 1
    /\ \E s, u \in execution_layers[layer_idx] :
          tasks[s] = "FAILED" /\ tasks[u] = "COMPLETED"

C26_CommandExecutorAcceptsNonEmptyCommand ==
    /\ (executor = "CommandExecutor" /\ accepts # None) =>
          (accepts = Some(TRUE) <=>
              /\ ex_step.type = "SINGLE"
              /\ ex_step.command \notin {None, Some("")}
              /\ ex_step.container = None)
    /\ (ex_pc # "idle") =>
          ~(CanExecute("CommandExecutor", ex_step) /\ CanExecute("ContainerExecutor", ex_step))

\* The graph that has the edges of g except the references of a step to itself.
WithoutSelfReferences(g) ==
    [s \in StepNames |-> IF s \in flow_steps /\ s \notin flow_depends_on[s] THEN g[s] \ {s}
                         ELSE g[s]]

\* No cycle among the edges of g.
GraphAcyclic(g) == \A S \in (SUBSET StepNames) \ {{}} : \E s \in S : g[s] \cap S = {}

\* C30: scanning a step that references its own output adds no edge from the
\* step to itself, so get_execution_order does not raise
\* CircularDependencyError when the other edges have no cycle.
C30_SelfReferenceAddsNoEdge ==
    /\ flow_pc # "init" =>
          \A s \in flow_steps : s \in graph[s] => s \in flow_depends_on[s]
    /\ flow_pc = "CircularDependencyError" => ~GraphAcyclic(WithoutSelfReferences(graph))

\* C40: after execute returns, every step whose _execute_step task returned a
\* state has that state in result.step_states, also when another step of its
\* layer failed or raised.
C40_ReturnedStateIsRecorded ==
    pc = "returned" =>
        \A s \in wf_steps :
            tasks[s] \in TaskReturned =>
                /\ s \in DOMAIN result.step_states
                /\ result.step_states[s] = tasks[s]

\* C31: the layers get_execution_layers returns hold every nested step of a
\* group step, each in a strictly later layer than the group step.
C31_NestedStepsFollowTheirGroup ==
    (dr_pc \in {"sort", "validate", "sorted", "raised"} /\ dr_layers.ok) =>
        \A p \in StepNames : \A c \in step_steps[p] :
            \E i, j \in DOMAIN dr_layers.layers :
                /\ p \in dr_layers.layers[i]
                /\ c \in dr_layers.layers[j]
                /\ i < j

\* C39: once every step has been added, each reference of a step s to an
\* output of another step X, and each depends_on entry X of s, has X among the
\* dependencies of s and s among the dependents of X.
C39_DependenciesMirrorDependents ==
    dr_pc \notin {"idle", "add_step"} =>
        \A s \in StepNames :
            \A X \in (step_references[s] \ {s}) \cup step_depends_on[s] :
                /\ X \in nodes[s].dependencies
                /\ s \in nodes[X].dependents

\* var_path has exactly the four segments steps.<name>.outputs.<name>.
FourSegmentStepReference(ps) == Len(ps) = 4 /\ ps[3] = "outputs"

\* C32: a reference whose first segment is `steps` and that is not of the form
\* steps.<name>.outputs.<name> (too few or too many segments, or a third
\* segment other than outputs) makes replace raise.
C32_MalformedStepReferenceIsRejected ==
    (rp_pc \in {"returned", "raised"} /\ parts[1] = "steps" /\ ~FourSegmentStepReference(parts)) =>
        rp_pc = "raised"

\* The chain starts and ends with the same step and follows edges of graph.
FlowCycleIsReal ==
    /\ Len(flow_cycle) >= 2
    /\ flow_cycle[1] = flow_cycle[Len(flow_cycle)]
    /\ \A i \in 1..(Len(flow_cycle) - 1) : flow_cycle[i + 1] \in graph[flow_cycle[i]]

\* C34: get_execution_order ends in one of two ways. With an acyclic graph it
\* returns every step exactly once, each after all the steps its graph entry
\* names; with a cycle in the graph it raises CircularDependencyError with a
\* chain that is a cycle of the graph.
C34_ExecutionOrderIsTopological ==
    /\ flow_pc \in {"init", "built", "while", "returned", "CircularDependencyError"}
    /\ flow_pc = "returned" =>
          /\ GraphAcyclic(graph)
          /\ Len(execution_order) = Cardinality(flow_steps)
          /\ Range(execution_order) = flow_steps
          /\ \A i \in DOMAIN execution_order : \A d \in graph[execution_order[i]] :
                \E j \in 1..(i - 1) : execution_order[j] = d
    /\ flow_pc = "CircularDependencyError" => (~GraphAcyclic(graph) /\ FlowCycleIsReal)

\* C35: execute() submits _execute_step at most once for a step: get_next_step
\* never hands out a step a second time.
C35_StepDispatchedAtMostOnce == \A s \in DOMAIN dispatched : dispatched[s] <= 1

\* A step with two predecessors has been handed out and is running.
C35_Witness ==
    \E s \in DOMAIN dispatched :
        /\ Cardinality(after[s]) = 2
        /\ dispatched[s] = 1
        /\ s \in running

SchedulerState ==
    <<pending, running, completed, failed, status, allocated_cpus, allocated_memory,
      allocated_gpus>>

\* C37: mark_step_running on a step that is in running, and mark_step_completed
\* or mark_step_failed on a step that is not in running, raise SchedulerError
\* and leave the sets, the queue, the step contexts and the allocated
\* resources as they were.
C37_RejectedCallChangesNothing ==
    [][sched_call' # sched_call =>
          /\ (sched_call'.op = "mark_step_running" /\ sched_call'.step \in running) =>
                sched_call'.raised
          /\ (sched_call'.op \in {"mark_step_completed", "mark_step_failed"}
                /\ sched_call'.step \notin running) => sched_call'.raised
          /\ sched_call'.raised => UNCHANGED SchedulerState]_vars

\* mark_step_completed was rejected for a step that had failed before.
C37_Witness ==
    /\ sched_call.op = "mark_step_completed"
    /\ sched_call.raised
    /\ sched_call.step \in failed

\* dependents is the inverse of the `after` entries.
DependentsMirrorAfter ==
    /\ DOMAIN dependents = DOMAIN after
    /\ \A s \in DOMAIN after : dependents[s] = {d \in DOMAIN after : s \in after[d]}

\* No cycle among the `after` entries, each of which names a step.
BuildableWorkflow ==
    /\ \A s \in DOMAIN after : after[s] \subseteq DOMAIN after
    /\ \A S \in (SUBSET DOMAIN after) \ {{}} : \E s \in S : after[s] \cap S = {}

\* C38: for an acyclic workflow whose `after` entries name steps, in any
\* order of declaration, the construction of the TaskScheduler succeeds with
\* dependents the inverse of dependencies and the steps without dependencies
\* in the pending queue, once each.
C38_SchedulerIsBuiltForEveryDag ==
    BuildableWorkflow =>
        /\ build_pc # "SchedulerError"
        /\ build_pc = "built" =>
              /\ DependentsMirrorAfter
              /\ Range(pending) = {s \in DOMAIN after : after[s] = {}}
              /\ Len(pending) = Cardinality(Range(pending))

\* C33: the second call of shutdown(), made by the finally clause of execute()
\* after the signal handler's call, ends by returning, and its steps leave the
\* scheduler's sets and queue, the step statuses and the allocated resources
\* as they were.
C33_ShutdownAgainChangesNothing ==
    [][(main_pc = "finally" /\ (main_pc' # main_pc \/ sd_done' # sd_done)) =>
          /\ main_pc' \in {"finally", "exited"}
          /\ UNCHANGED SchedulerState]_vars

\* The second call stops a container while a step is still running and
\* another has completed.
C33_Witness ==
    /\ main_pc = "finally"
    /\ sd_done # {}
    /\ running # {}
    /\ completed # {}

====
